---- MODULE Spec2Model ----
(***************************************************************************)
(* Model of the monorail scaffolding engine: the non-interactive CLI       *)
(* wrapper (plop-cli.js: parseArgs, parseFields, parseOperations, helpers, *)
(* the generator registry and main) and the plopfile's parsers.            *)
(*                                                                         *)
(* JavaScript strings are sequences of one-character strings, so that      *)
(* startsWith, slice, split, trim and the regular-expression helpers are   *)
(* computed character by character.  JavaScript values are records of one  *)
(* uniform shape, tagged by their type.                                    *)
(***************************************************************************)
EXTENDS Naturals, Integers, Sequences, FiniteSets, TLC

VARIABLES
    argv,        \* process.argv.slice(2) of the running invocation
    pc,          \* position of the process: "idle", "parsed", "writing", "exited"
    generator,   \* result.generator of parseArgs
    data,        \* result.data of parseArgs
    merged,      \* finalData as built by the spread, before preProcess
    finalData,   \* finalData as handed to the templates
    missing,     \* the list computed by config.required.filter
    outputs,     \* the output instructions of the invocation
    idx,         \* index of the next output instruction
    fs,          \* the file system: path -> content
    fsBefore,    \* the file system when the invocation started
    exitCode,    \* process exit status, NoExit while running
    stdout,      \* lines printed with console.log
    stderr,      \* lines printed with console.error
    runs,        \* number of invocations started so far
    input,       \* argument of a direct parser call
    fieldsResult,\* outcome of parseFields(input)
    opsResult,   \* outcome of parseOperations(input)
    helperInput, \* argument of a direct call of a case helper
    helperName,  \* the helper that was called, "none" before the call
    helperResult,\* outcome of the helper call
    fieldInput,  \* argument of a direct call of a field type helper
    typeFn,      \* the type helper that was called, "none" before the call
    typeResult,  \* outcome of the type helper call
    plopArgv,    \* the command line handed to the plopfile generator, <<>> before
    plopActions, \* the actions the plopfile generator returned, <<>> before
    procs,       \* concurrent invocations: process -> its position in main
    started,     \* the concurrent invocations in the order they were launched
    overlapped   \* whether an invocation was launched while another was running

vars == <<argv, pc, generator, data, merged, finalData, missing, outputs, idx,
          fs, fsBefore, exitCode, stdout, stderr, runs,
          input, fieldsResult, opsResult,
          helperInput, helperName, helperResult, fieldInput, typeFn, typeResult,
          plopArgv, plopActions, procs, started, overlapped>>

mainVars == <<argv, pc, generator, data, merged, finalData, missing, outputs, idx,
              fs, fsBefore, exitCode, stdout, stderr, runs>>

parserVars == <<input, fieldsResult, opsResult>>

helperVars == <<helperInput, helperName, helperResult>>

typeVars == <<fieldInput, typeFn, typeResult>>

plopVars == <<plopArgv, plopActions>>

procVars == <<procs, started, overlapped>>

-----------------------------------------------------------------------------
(* Bounds of the model *)

MaxArgs == 4
MaxRuns == 2
MaxArgvLen == 3
MaxLen == 4
MaxPieces == 2
MaxPlan == 2
MaxTokens == 5
MaxWrap == 2

-----------------------------------------------------------------------------
(* JavaScript strings *)

StartsWith(s, p) ==
    /\ Len(s) >= Len(p)
    /\ SubSeq(s, 1, Len(p)) = p

EndsWith(s, p) ==
    /\ Len(s) >= Len(p)
    /\ SubSeq(s, Len(s) - Len(p) + 1, Len(s)) = p

\* s.slice(n) for 0 <= n
Slice(s, n) == SubSeq(s, n + 1, Len(s))

\* the characters matched by \s that the model's inputs can hold
Whitespace == {" ", "\t", "\n", "\r"}

RECURSIVE TrimStart(_)
TrimStart(s) ==
    IF s # <<>> /\ Head(s) \in Whitespace THEN TrimStart(Tail(s)) ELSE s

RECURSIVE TrimEnd(_)
TrimEnd(s) ==
    IF s # <<>> /\ s[Len(s)] \in Whitespace
    THEN TrimEnd(SubSeq(s, 1, Len(s) - 1))
    ELSE s

Trim(s) == TrimEnd(TrimStart(s))

\* s.split(sep) for a one-character separator: always at least one piece
RECURSIVE SplitFrom(_, _, _, _)
SplitFrom(s, sep, i, cur) ==
    IF i > Len(s) THEN <<cur>>
    ELSE IF s[i] = sep THEN <<cur>> \o SplitFrom(s, sep, i + 1, <<>>)
    ELSE SplitFrom(s, sep, i + 1, Append(cur, s[i]))

Split(s, sep) == SplitFrom(s, sep, 1, <<>>)

LowerLetters ==
    <<"a","b","c","d","e","f","g","h","i","j","k","l","m",
      "n","o","p","q","r","s","t","u","v","w","x","y","z">>

UpperLetters ==
    <<"A","B","C","D","E","F","G","H","I","J","K","L","M",
      "N","O","P","Q","R","S","T","U","V","W","X","Y","Z">>

IsLower(c) == \E i \in 1..Len(LowerLetters) : LowerLetters[i] = c

IsUpper(c) == \E i \in 1..Len(UpperLetters) : UpperLetters[i] = c

ToLowerChar(c) ==
    IF IsUpper(c)
    THEN LowerLetters[CHOOSE i \in 1..Len(UpperLetters) : UpperLetters[i] = c]
    ELSE c

ToUpperChar(c) ==
    IF IsLower(c)
    THEN UpperLetters[CHOOSE i \in 1..Len(LowerLetters) : LowerLetters[i] = c]
    ELSE c

ToLowerCase(s) == [i \in 1..Len(s) |-> ToLowerChar(s[i])]

\* all sequences over S of length at most n
RECURSIVE SeqsUpTo(_, _)
SeqsUpTo(S, n) ==
    IF n = 0 THEN {<<>>}
    ELSE LET shorter == SeqsUpTo(S, n - 1)
         IN  shorter \cup {Append(s, c) : s \in {t \in shorter : Len(t) = n - 1}, c \in S}

-----------------------------------------------------------------------------
(* JavaScript values *)

Undef == [t |-> "undefined", s |-> <<>>, b |-> FALSE, items |-> <<>>, keys |-> <<>>]

Null == [t |-> "null", s |-> <<>>, b |-> FALSE, items |-> <<>>, keys |-> <<>>]

Str(s) == [t |-> "string", s |-> s, b |-> FALSE, items |-> <<>>, keys |-> <<>>]

Bool(b) == [t |-> "boolean", s |-> <<>>, b |-> b, items |-> <<>>, keys |-> <<>>]

\* a number, kept as its lexeme
Num(lexeme) == [t |-> "number", s |-> lexeme, b |-> FALSE, items |-> <<>>, keys |-> <<>>]

Arr(items) == [t |-> "array", s |-> <<>>, b |-> FALSE, items |-> items, keys |-> <<>>]

\* an object literal: keys in insertion order, items[i] the value of keys[i]
Obj(keys, items) == [t |-> "object", s |-> <<>>, b |-> FALSE, items |-> items, keys |-> keys]

\* v[key] for an object literal v: undefined when v has no such key
Member(v, key) ==
    IF \E n \in 1..Len(v.keys) : v.keys[n] = key
    THEN v.items[CHOOSE n \in 1..Len(v.keys) : v.keys[n] = key]
    ELSE Undef

\* a function object, named by s
Fn(name) == [t |-> "function", s |-> name, b |-> FALSE, items |-> <<>>, keys |-> <<>>]

\* ToBoolean
Truthy(v) ==
    CASE v.t = "undefined" -> FALSE
      [] v.t = "null" -> FALSE
      [] v.t = "boolean" -> v.b
      [] v.t = "string" -> v.s # <<>>
      [] v.t = "number" -> \E i \in 1..Len(v.s) : v.s[i] \in {"1","2","3","4","5","6","7","8","9"}
      [] OTHER -> TRUE

TypeOf(v) ==
    CASE v.t = "array" -> "object"
      [] v.t = "null" -> "object"
      [] OTHER -> v.t

\* The argument bags (result.data, finalData) are functions from their own
\* keys to values.  Object.prototype supplies the inherited properties.
EmptyObj == [k \in {} |-> Undef]

ObjectPrototypeProps ==
    {<<"c","o","n","s","t","r","u","c","t","o","r">>, <<"_","_","p","r","o","t","o","_","_">>, <<"h","a","s","O","w","n","P","r","o","p","e","r","t","y">>, <<"i","s","P","r","o","t","o","t","y","p","e","O","f">>,
     <<"p","r","o","p","e","r","t","y","I","s","E","n","u","m","e","r","a","b","l","e">>, <<"t","o","L","o","c","a","l","e","S","t","r","i","n","g">>, <<"t","o","S","t","r","i","n","g">>, <<"v","a","l","u","e","O","f">>,
     <<"_","_","d","e","f","i","n","e","G","e","t","t","e","r","_","_">>, <<"_","_","d","e","f","i","n","e","S","e","t","t","e","r","_","_">>, <<"_","_","l","o","o","k","u","p","G","e","t","t","e","r","_","_">>, <<"_","_","l","o","o","k","u","p","S","e","t","t","e","r","_","_">>}

\* o[k]
GetProp(o, k) ==
    IF k \in DOMAIN o THEN o[k]
    ELSE IF k = <<"_","_","p","r","o","t","o","_","_">> THEN Obj(<<>>, <<>>)
    ELSE IF k \in ObjectPrototypeProps THEN Fn(k)
    ELSE Undef

\* o[k] = v for a primitive v: assigning a primitive to __proto__ is ignored
SetProp(o, k, v) ==
    IF k = <<"_","_","p","r","o","t","o","_","_">> THEN o
    ELSE [x \in DOMAIN o \cup {k} |-> IF x = k THEN v ELSE o[x]]

\* { ...a, ...b }
Spread(a, b) ==
    [k \in DOMAIN a \cup DOMAIN b |-> IF k \in DOMAIN b THEN b[k] ELSE a[k]]

-----------------------------------------------------------------------------
(* parseArgs *)

\* a variant that folds case and surrounding blanks before comparing
CoerceValue_lenient(value) ==
    IF ToLowerCase(Trim(value)) = <<"t","r","u","e">> THEN Bool(TRUE)
    ELSE IF ToLowerCase(Trim(value)) = <<"f","a","l","s","e">> THEN Bool(FALSE)
    ELSE Str(value)

\* a consumed value with the boolean strings turned into booleans
CoerceValue(value) ==
    IF value = <<"t","r","u","e">> THEN Bool(TRUE)
    ELSE IF value = <<"f","a","l","s","e">> THEN Bool(FALSE)
    ELSE Str(value)

\* whether the token after a flag is taken as the flag's value
ConsumesValue(value) ==
    /\ Truthy(value)
    /\ ~StartsWith(value.s, <<"-","-">>)

\* the for loop; args[1] is the generator, so the loop starts at 2
RECURSIVE parseArgsLoop(_, _, _)
parseArgsLoop(args, i, result) ==
    IF i > Len(args) THEN result
    ELSE IF StartsWith(args[i], <<"-","-">>)
    THEN LET key == Slice(args[i], 2)
             value == IF i + 1 <= Len(args) THEN Str(args[i + 1]) ELSE Undef
         IN  IF ConsumesValue(value)
             THEN parseArgsLoop(args, i + 2, SetProp(result, key, CoerceValue(value.s)))
             ELSE parseArgsLoop(args, i + 1, SetProp(result, key, Bool(TRUE)))
    ELSE parseArgsLoop(args, i + 1, result)

\* help is TRUE when parseArgs printed the generator list and exited with 0
parseArgs(args) ==
    IF Len(args) = 0
    THEN [help |-> TRUE, generator |-> Null, data |-> EmptyObj]
    ELSE [help |-> FALSE, generator |-> Str(args[1]), data |-> parseArgsLoop(args, 2, EmptyObj)]

-----------------------------------------------------------------------------
(* JSON.parse *)

JsonWhitespace == {" ", "\t", "\n", "\r"}

JsonDigits == {"0","1","2","3","4","5","6","7","8","9"}

\* characters that may not appear unescaped inside a JSON string
JsonControlChars == {"\t", "\n", "\r", "\f"}

JsonFail == [ok |-> FALSE, v |-> Undef, i |-> 0]

JsonOk(v, i) == [ok |-> TRUE, v |-> v, i |-> i]

RECURSIVE JsonSkipWs(_, _)
JsonSkipWs(s, i) ==
    IF i <= Len(s) /\ s[i] \in JsonWhitespace THEN JsonSkipWs(s, i + 1) ELSE i

RECURSIVE JsonDigitsEnd(_, _)
JsonDigitsEnd(s, i) ==
    IF i <= Len(s) /\ s[i] \in JsonDigits THEN JsonDigitsEnd(s, i + 1) ELSE i

JsonMatchAt(s, i, lit) ==
    /\ i + Len(lit) - 1 <= Len(s)
    /\ SubSeq(s, i, i + Len(lit) - 1) = lit

\* the character an escape sequence \c stands for
JsonUnescape(c) ==
    CASE c = "n" -> "\n"
      [] c = "r" -> "\r"
      [] c = "t" -> "\t"
      [] c = "f" -> "\f"
      [] OTHER -> c

\* i is the index after the opening quote
RECURSIVE JsonString(_, _, _)
JsonString(s, i, acc) ==
    IF i > Len(s) THEN JsonFail
    ELSE IF s[i] = "\"" THEN JsonOk(Str(acc), i + 1)
    ELSE IF s[i] = "\\"
    THEN IF i + 1 <= Len(s) /\ s[i + 1] \in {"\"", "\\", "/", "n", "r", "t", "f"}
         THEN JsonString(s, i + 2, Append(acc, JsonUnescape(s[i + 1])))
         ELSE JsonFail
    ELSE IF s[i] \in JsonControlChars THEN JsonFail
    ELSE JsonString(s, i + 1, Append(acc, s[i]))

\* -? (0 | [1-9][0-9]*) (. [0-9]+)? ([eE] [+-]? [0-9]+)?
JsonNumber(s, i) ==
    LET a == IF s[i] = "-" THEN i + 1 ELSE i
        intOk == a <= Len(s) /\ s[a] \in JsonDigits
        b == IF intOk /\ s[a] = "0" THEN a + 1 ELSE JsonDigitsEnd(s, a)
        hasFrac == b <= Len(s) /\ s[b] = "."
        c == IF hasFrac THEN JsonDigitsEnd(s, b + 1) ELSE b
        fracOk == hasFrac => c > b + 1
        hasExp == c <= Len(s) /\ s[c] \in {"e", "E"}
        d0 == IF hasExp /\ c + 1 <= Len(s) /\ s[c + 1] \in {"+", "-"} THEN c + 2 ELSE c + 1
        d == IF hasExp THEN JsonDigitsEnd(s, d0) ELSE c
        expOk == hasExp => d > d0
    IN  IF intOk /\ fracOk /\ expOk THEN JsonOk(Num(SubSeq(s, i, d - 1)), d) ELSE JsonFail

\* obj[key] = v on an object under construction: a repeated key keeps its place
JsonPut(keys, items, key, v) ==
    IF \E n \in 1..Len(keys) : keys[n] = key
    THEN LET n == CHOOSE m \in 1..Len(keys) : keys[m] = key
         IN  [keys |-> keys, items |-> [items EXCEPT ![n] = v]]
    ELSE [keys |-> Append(keys, key), items |-> Append(items, v)]

RECURSIVE JsonValue(_, _)
RECURSIVE JsonElements(_, _, _)
RECURSIVE JsonMembers(_, _, _, _)

\* j is the index after the element just read and the blanks that follow it
JsonElementSeparator(s, acc, j) ==
    IF j > Len(s) THEN JsonFail
    ELSE IF s[j] = "," THEN JsonElements(s, JsonSkipWs(s, j + 1), acc)
    ELSE IF s[j] = "]" THEN JsonOk(Arr(acc), j + 1)
    ELSE JsonFail

\* r is the outcome of reading one element
JsonAfterElement(s, acc, r) ==
    IF ~r.ok THEN JsonFail
    ELSE JsonElementSeparator(s, Append(acc, r.v), JsonSkipWs(s, r.i))

\* i is the index of the first character of the next element
JsonElements(s, i, acc) == JsonAfterElement(s, acc, JsonValue(s, i))

\* j is the index after the member just read and the blanks that follow it
JsonMemberSeparator(s, put, j) ==
    IF j > Len(s) THEN JsonFail
    ELSE IF s[j] = "," THEN JsonMembers(s, JsonSkipWs(s, j + 1), put.keys, put.items)
    ELSE IF s[j] = "}" THEN JsonOk(Obj(put.keys, put.items), j + 1)
    ELSE JsonFail

\* r is the outcome of reading the member's value
JsonAfterMember(s, keys, items, key, r) ==
    IF ~r.ok THEN JsonFail
    ELSE JsonMemberSeparator(s, JsonPut(keys, items, key, r.v), JsonSkipWs(s, r.i))

\* c is the index where the colon after the key must be
JsonColon(s, keys, items, key, c) ==
    IF c > Len(s) \/ s[c] # ":" THEN JsonFail
    ELSE JsonAfterMember(s, keys, items, key, JsonValue(s, JsonSkipWs(s, c + 1)))

\* k is the outcome of reading the member's key
JsonAfterKey(s, keys, items, k) ==
    IF ~k.ok THEN JsonFail
    ELSE JsonColon(s, keys, items, k.v.s, JsonSkipWs(s, k.i))

\* i is the index of the opening quote of the next member's key
JsonMembers(s, i, keys, items) ==
    IF i > Len(s) \/ s[i] # "\"" THEN JsonFail
    ELSE JsonAfterKey(s, keys, items, JsonString(s, i + 1, <<>>))

\* j is the index of the first character after the opening bracket and blanks
JsonArray(s, j) ==
    IF j <= Len(s) /\ s[j] = "]" THEN JsonOk(Arr(<<>>), j + 1)
    ELSE JsonElements(s, j, <<>>)

\* j is the index of the first character after the opening brace and blanks
JsonObject(s, j) ==
    IF j <= Len(s) /\ s[j] = "}" THEN JsonOk(Obj(<<>>, <<>>), j + 1)
    ELSE JsonMembers(s, j, <<>>, <<>>)

\* i is the index of the first character of the value
JsonValue(s, i) ==
    IF i > Len(s) THEN JsonFail
    ELSE CASE s[i] = "[" -> JsonArray(s, JsonSkipWs(s, i + 1))
           [] s[i] = "{" -> JsonObject(s, JsonSkipWs(s, i + 1))
           [] s[i] = "\"" -> JsonString(s, i + 1, <<>>)
           [] s[i] = "-" \/ s[i] \in JsonDigits -> JsonNumber(s, i)
           [] JsonMatchAt(s, i, <<"t","r","u","e">>) -> JsonOk(Bool(TRUE), i + 4)
           [] JsonMatchAt(s, i, <<"f","a","l","s","e">>) -> JsonOk(Bool(FALSE), i + 5)
           [] JsonMatchAt(s, i, <<"n","u","l","l">>) -> JsonOk(Null, i + 4)
           [] OTHER -> JsonFail

\* r is the outcome of reading the value: nothing but blanks may follow it
JsonWhole(text, r) ==
    IF r.ok /\ JsonSkipWs(text, r.i) > Len(text)
    THEN [ok |-> TRUE, v |-> r.v]
    ELSE [ok |-> FALSE, v |-> Undef]

\* JSON.parse(text): ok is FALSE when it throws a SyntaxError
JsonParse(text) == JsonWhole(text, JsonValue(text, JsonSkipWs(text, 1)))

\* String(v) for the primitives
ToStringPrimitive(v) ==
    CASE v.t = "string" -> v.s
      [] v.t = "number" -> v.s
      [] v.t = "boolean" -> IF v.b THEN <<"t","r","u","e">> ELSE <<"f","a","l","s","e">>
      [] v.t = "null" -> <<"n","u","l","l">>
      [] v.t = "undefined" -> <<"u","n","d","e","f","i","n","e","d">>

-----------------------------------------------------------------------------
(* parseFields and parseOperations *)

\* the outcome of a call: a returned value or a thrown exception, and whether
\* console.error was called
Returned(v, logged) == [called |-> TRUE, threw |-> FALSE, value |-> v, logged |-> logged]

Threw == [called |-> TRUE, threw |-> TRUE, value |-> Undef, logged |-> FALSE]

NotCalled == [called |-> FALSE, threw |-> FALSE, value |-> Undef, logged |-> FALSE]

\* f => { const [name, type] = f.trim().split(':'); return {name, type} }
\* ok is FALSE when name.trim() or type.trim() throws
FieldOfSegment(f) ==
    LET parts == Split(Trim(f), ":")
        name == IF Len(parts) >= 1 THEN Str(parts[1]) ELSE Undef
        type == IF Len(parts) >= 2 THEN Str(parts[2]) ELSE Undef
    IN  IF name.t # "string" THEN [ok |-> FALSE, v |-> Undef]
        ELSE [ok |-> TRUE,
              v |-> Obj(<<<<"n","a","m","e">>, <<"t","y","p","e">>>>,
                        <<Str(Trim(name.s)),
                          IF Truthy(type) THEN Str(Trim(type.s)) ELSE Str(<<"T","e","x","t">>)>>)]

\* a variant that keeps the records without a name
FilterNamed_keepAll(fields) == fields

\* .filter(f => f.name)
RECURSIVE FilterNamed(_)
FilterNamed(fields) ==
    IF fields = <<>> THEN <<>>
    ELSE IF Truthy(Head(fields).items[1])
    THEN <<Head(fields)>> \o FilterNamed(Tail(fields))
    ELSE FilterNamed(Tail(fields))

\* the shorthand path: name:Type,name:Type
ShorthandFields(s) ==
    LET segs == Split(s, ",")
        recs == [n \in 1..Len(segs) |-> FieldOfSegment(segs[n])]
    IN  IF \E n \in 1..Len(recs) : ~recs[n].ok THEN Threw
        ELSE Returned(Arr(FilterNamed([n \in 1..Len(recs) |-> recs[n].v])), FALSE)

\* a variant that keeps only the parsed elements that have a name
FieldsOrEmpty_namedOnly(r) ==
    IF r.ok
    THEN Returned(Arr(SelectSeq(r.v.items, LAMBDA e : Truthy(Member(e, <<"n","a","m","e">>)))), FALSE)
    ELSE Returned(Arr(<<>>), TRUE)

\* try { return JSON.parse(fieldsInput) } catch { log; return [] }
\* r is the outcome of JSON.parse
FieldsOrEmpty(r) ==
    IF r.ok THEN Returned(r.v, FALSE) ELSE Returned(Arr(<<>>), TRUE)

\* the JSON path of parseFields
JsonFields(s) == FieldsOrEmpty(JsonParse(s))

parseFields(fieldsInput) ==
    IF ~Truthy(fieldsInput) THEN Returned(Arr(<<>>), FALSE)
    ELSE IF fieldsInput.t # "string" THEN Threw
    ELSE IF StartsWith(fieldsInput.s, <<"[">>) THEN JsonFields(fieldsInput.s)
    ELSE ShorthandFields(fieldsInput.s)

\* a variant without the try/catch
OperationsOrEmpty_uncaught(r) ==
    IF r.ok THEN Returned(r.v, FALSE) ELSE Threw

\* try { return JSON.parse(opsInput) } catch { log; return [] }
\* r is the outcome of JSON.parse
OperationsOrEmpty(r) ==
    IF r.ok THEN Returned(r.v, FALSE) ELSE Returned(Arr(<<>>), TRUE)

JsonOperations(text) == OperationsOrEmpty(JsonParse(text))

parseOperations(opsInput) ==
    IF ~Truthy(opsInput) THEN Returned(Arr(<<>>), FALSE)
    ELSE JsonOperations(ToStringPrimitive(opsInput))

-----------------------------------------------------------------------------
(* Case transformation helpers *)

HelperOk(s) == [ok |-> TRUE, s |-> s]

\* text.replace / text.toLowerCase is not a function: a TypeError
HelperThrows == [ok |-> FALSE, s |-> <<>>]

\* no helper was called yet
HelperNotCalled == [ok |-> FALSE, s |-> <<"n","o","t"," ","c","a","l","l","e","d">>]

\* the characters matched by [-_\s]
Delimiters == {"-", "_"} \cup Whitespace

\* the characters that . does not match
LineTerminators == {"\n", "\r"}

\* [-_\s]+ is greedy: the index after the run that starts at i
RECURSIVE RunEnd(_, _)
RunEnd(s, i) ==
    IF i <= Len(s) /\ s[i] \in Delimiters THEN RunEnd(s, i + 1) ELSE i

RECURSIVE CapitalizeAfterRuns(_, _)

\* a variant that drops the run and leaves the next character as it is
CapitalizeCaptured_keepsCase(s, j) == CapitalizeAfterRuns(s, j)

\* (_, c) => (c ? c.toUpperCase() : ''), where j is the index after the run:
\* (.)? captures the character at j when there is one
CapitalizeCaptured(s, j) ==
    IF j <= Len(s) /\ s[j] \notin LineTerminators
    THEN <<ToUpperChar(s[j])>> \o CapitalizeAfterRuns(s, j + 1)
    ELSE CapitalizeAfterRuns(s, j)

\* .replace(/[-_\s]+(.)?/g, (_, c) => (c ? c.toUpperCase() : ''))
CapitalizeAfterRuns(s, i) ==
    IF i > Len(s) THEN <<>>
    ELSE IF s[i] \in Delimiters THEN CapitalizeCaptured(s, RunEnd(s, i))
    ELSE <<s[i]>> \o CapitalizeAfterRuns(s, i + 1)

\* .replace(/^(.)/, (c) => c.toUpperCase())
UpperFirst(s) ==
    IF s # <<>> /\ s[1] \notin LineTerminators
    THEN <<ToUpperChar(s[1])>> \o Tail(s)
    ELSE s

\* .replace(/^(.)/, (c) => c.toLowerCase())
LowerFirst(s) ==
    IF s # <<>> /\ s[1] \notin LineTerminators
    THEN <<ToLowerChar(s[1])>> \o Tail(s)
    ELSE s

pascalCase(text) ==
    IF text.t # "string" THEN HelperThrows
    ELSE HelperOk(UpperFirst(CapitalizeAfterRuns(text.s, 1)))

camelCase(text) ==
    IF text.t # "string" THEN HelperThrows
    ELSE HelperOk(LowerFirst(CapitalizeAfterRuns(text.s, 1)))

\* .replace(/([a-z])([A-Z])/g, '$1-$2')
RECURSIVE HyphenateCamel(_, _)
HyphenateCamel(s, i) ==
    IF i > Len(s) THEN <<>>
    ELSE IF i < Len(s) /\ IsLower(s[i]) /\ IsUpper(s[i + 1])
    THEN <<s[i], "-", s[i + 1]>> \o HyphenateCamel(s, i + 2)
    ELSE <<s[i]>> \o HyphenateCamel(s, i + 1)

\* a variant that replaces every separator character, not every run
RECURSIVE HyphenateSeparators_each(_, _)
HyphenateSeparators_each(s, i) ==
    IF i > Len(s) THEN <<>>
    ELSE IF s[i] \in {"_"} \cup Whitespace
    THEN <<"-">> \o HyphenateSeparators_each(s, i + 1)
    ELSE <<s[i]>> \o HyphenateSeparators_each(s, i + 1)

\* .replace(/[_\s]+/g, '-')
RECURSIVE HyphenateSeparators(_, _)
HyphenateSeparators(s, i) ==
    IF i > Len(s) THEN <<>>
    ELSE IF s[i] \in {"_"} \cup Whitespace
    THEN IF i > 1 /\ s[i - 1] \in {"_"} \cup Whitespace
         THEN HyphenateSeparators(s, i + 1)
         ELSE <<"-">> \o HyphenateSeparators(s, i + 1)
    ELSE <<s[i]>> \o HyphenateSeparators(s, i + 1)

kebabCase(text) ==
    IF text.t # "string" THEN HelperThrows
    ELSE HelperOk(ToLowerCase(HyphenateSeparators(HyphenateCamel(text.s, 1), 1)))

lowercase(text) ==
    IF text.t # "string" THEN HelperThrows
    ELSE HelperOk(ToLowerCase(text.s))

\* a variant that knows the one-letter endings only
pluralize_noDigraphs(text) ==
    IF text.t # "string" THEN HelperThrows
    ELSE IF EndsWith(text.s, <<"y">>)
    THEN HelperOk(SubSeq(text.s, 1, Len(text.s) - 1) \o <<"i","e","s">>)
    ELSE IF EndsWith(text.s, <<"s">>) \/ EndsWith(text.s, <<"x">>)
    THEN HelperOk(text.s \o <<"e","s">>)
    ELSE HelperOk(text.s \o <<"s">>)

pluralize(text) ==
    IF text.t # "string" THEN HelperThrows
    ELSE IF EndsWith(text.s, <<"y">>)
    THEN HelperOk(SubSeq(text.s, 1, Len(text.s) - 1) \o <<"i","e","s">>)
    ELSE IF EndsWith(text.s, <<"s">>) \/ EndsWith(text.s, <<"x">>)
            \/ EndsWith(text.s, <<"c","h">>) \/ EndsWith(text.s, <<"s","h">>)
    THEN HelperOk(text.s \o <<"e","s">>)
    ELSE HelperOk(text.s \o <<"s">>)

-----------------------------------------------------------------------------
(* plopfile.js: the field type helpers of the JSON mappers *)

\* a variant whose encode table does not know Boolean
getAddFn_noBoolean(type) ==
    CASE type = Str(<<"T","e","x","t">>) -> <<"a","d","d","T","e","x","t">>
      [] type = Str(<<"N","a","t">>) -> <<"a","d","d","N","a","t">>
      [] type = Str(<<"I","n","t">>) -> <<"a","d","d","I","n","t">>
      [] type = Str(<<"F","l","o","a","t">>) -> <<"a","d","d","F","l","o","a","t">>
      [] OTHER -> <<"a","d","d","J","s","o","n">>

getAddFn(type) ==
    CASE type = Str(<<"T","e","x","t">>) -> <<"a","d","d","T","e","x","t">>
      [] type = Str(<<"N","a","t">>) -> <<"a","d","d","N","a","t">>
      [] type = Str(<<"I","n","t">>) -> <<"a","d","d","I","n","t">>
      [] type = Str(<<"F","l","o","a","t">>) -> <<"a","d","d","F","l","o","a","t">>
      [] type = Str(<<"B","o","o","l","e","a","n">>) -> <<"a","d","d","B","o","o","l","e","a","n">>
      [] OTHER -> <<"a","d","d","J","s","o","n">>

getDecoderForType(type) ==
    CASE type = Str(<<"T","e","x","t">>) -> <<"D","e","c","o","d","e","r",".","t","e","x","t">>
      [] type = Str(<<"N","a","t">>) -> <<"D","e","c","o","d","e","r",".","n","a","t">>
      [] type = Str(<<"I","n","t">>) -> <<"D","e","c","o","d","e","r",".","i","n","t">>
      [] type = Str(<<"F","l","o","a","t">>) -> <<"D","e","c","o","d","e","r",".","f","l","o","a","t">>
      [] type = Str(<<"B","o","o","l","e","a","n">>) -> <<"D","e","c","o","d","e","r",".","b","o","o","l","e","a","n">>
      [] OTHER -> ToStringPrimitive(type) \o <<".","d","e","c","o","d","e","r">>

getEncoderForType(type) ==
    CASE type = Str(<<"T","e","x","t">>) -> <<"J","s","o","n",".","S","t","r","i","n","g">>
      [] type = Str(<<"N","a","t">>) -> <<"J","s","o","n",".","N","u","m","b","e","r">>
      [] type = Str(<<"I","n","t">>) -> <<"J","s","o","n",".","N","u","m","b","e","r">>
      [] type = Str(<<"F","l","o","a","t">>) -> <<"J","s","o","n",".","N","u","m","b","e","r">>
      [] type = Str(<<"B","o","o","l","e","a","n">>) -> <<"J","s","o","n",".","B","o","o","l","e","a","n">>
      [] OTHER -> ToStringPrimitive(type) \o <<".","e","n","c","o","d","e","r">>

\* type.replace('Optional ', '') for a type that starts with 'Optional ':
\* the first occurrence is the prefix
StripOptional(s) == Slice(s, Len(<<"O","p","t","i","o","n","a","l"," ">>))

\* type.slice(1, -1)
StripBrackets(s) == SubSeq(s, 2, Len(s) - 1)

\* the body of encoderField for the name n and the type string t
EncoderSnippet(n, t) ==
    IF StartsWith(t, <<"O","p","t","i","o","n","a","l"," ">>)
    THEN <<"|",">"," ","(","m","a","t","c","h"," ","v","a","l","u","e",".">> \o n \o <<" ","w","i","t","h","\n"," "," "," "," "," "," ","S","o","m","e"," ","v"," ","-",">"," ","o","b","j","e","c","t",".">>
         \o getAddFn(Str(StripOptional(t))) \o <<" ","\"">> \o n
         \o <<"\""," ","v","\n"," "," "," "," "," "," ","N","o","n","e"," ","-",">"," ","i","d","e","n","t","i","t","y",")">>
    ELSE IF StartsWith(t, <<"[">>)
    THEN <<"|",">"," ","o","b","j","e","c","t",".","a","d","d","A","r","r","a","y"," ","\"">> \o n \o <<"\""," ","(","L","i","s","t",".","m","a","p"," ">>
         \o getEncoderForType(Str(StripBrackets(t))) \o <<" ","v","a","l","u","e",".">> \o n \o <<")">>
    ELSE <<"|",">"," ","o","b","j","e","c","t",".">> \o getAddFn(Str(t)) \o <<" ","\"">> \o n \o <<"\""," ","v","a","l","u","e",".">> \o n

\* the body of decoderField for the name n and the type string t
DecoderSnippet(n, t) ==
    IF StartsWith(t, <<"O","p","t","i","o","n","a","l"," ">>)
    THEN n \o <<" ","="," ","a","t","O","p","t","i","o","n","a","l"," ","\"">> \o n \o <<"\""," ">>
         \o getDecoderForType(Str(StripOptional(t)))
    ELSE IF StartsWith(t, <<"[">>)
    THEN n \o <<" ","="," ","a","t","!"," ","\"">> \o n \o <<"\""," ","(","D","e","c","o","d","e","r",".","a","r","r","a","y"," ">>
         \o getDecoderForType(Str(StripBrackets(t))) \o <<")">>
    ELSE n \o <<" ","="," ","a","t","!"," ","\"">> \o n \o <<"\""," ">> \o getDecoderForType(Str(t))

\* const { name, type } = field; type.startsWith throws unless type is a string
encoderField(fld) ==
    IF Member(fld, <<"t","y","p","e">>).t # "string" THEN HelperThrows
    ELSE HelperOk(EncoderSnippet(ToStringPrimitive(Member(fld, <<"n","a","m","e">>)),
                                 Member(fld, <<"t","y","p","e">>).s))

decoderField(fld) ==
    IF Member(fld, <<"t","y","p","e">>).t # "string" THEN HelperThrows
    ELSE HelperOk(DecoderSnippet(ToStringPrimitive(Member(fld, <<"n","a","m","e">>)),
                                 Member(fld, <<"t","y","p","e">>).s))

-----------------------------------------------------------------------------
(* Generator configurations *)

GeneratorNames ==
    <<<<"u","n","i","s","o","n","-","w","e","b","-","a","p","p">>, <<"c","r","u","d","-","m","o","d","u","l","e">>, <<"a","b","i","l","i","t","y","-","h","a","n","d","l","e","r">>, <<"j","s","o","n","-","m","a","p","p","e","r","s">>,
      <<"p","a","g","e","-","r","o","u","t","e">>, <<"a","p","i","-","c","l","i","e","n","t">>, <<"s","e","r","v","i","c","e","-","t","e","s","t","s">>>>

\* an object literal of primitives, from its keys and their values
ObjectOf(keys, values) ==
    [k \in {keys[n] : n \in 1..Len(keys)} |->
        values[CHOOSE n \in 1..Len(keys) : keys[n] = k]]

generators ==
    [g \in {GeneratorNames[n] : n \in 1..Len(GeneratorNames)} |->
        CASE g = <<"u","n","i","s","o","n","-","w","e","b","-","a","p","p">> ->
               [defaults |-> ObjectOf(<<<<"h","t","m","l","L","i","b">>>>, <<Str(<<"t","a","p","e","g","r","a","m","_","h","t","m","l","_","2","_","0","_","0">>)>>),
                required |-> <<<<"a","p","p","N","a","m","e">>>>]
          [] g = <<"c","r","u","d","-","m","o","d","u","l","e">> ->
               [defaults |-> ObjectOf(<<<<"h","t","m","l","L","i","b">>, <<"i","n","c","l","u","d","e","J","s","o","n">>, <<"f","i","e","l","d","s">>>>,
                                      <<Str(<<"t","a","p","e","g","r","a","m","_","h","t","m","l","_","2","_","0","_","0">>), Bool(TRUE), Str(<<"n","a","m","e",":","T","e","x","t">>)>>),
                required |-> <<<<"e","n","t","i","t","y","N","a","m","e">>>>]
          [] g = <<"a","b","i","l","i","t","y","-","h","a","n","d","l","e","r">> ->
               [defaults |-> ObjectOf(<<<<"a","d","a","p","t","e","r","T","y","p","e">>, <<"i","n","c","l","u","d","e","F","a","k","e">>, <<"o","p","e","r","a","t","i","o","n","s">>>>,
                                      <<Str(<<"C","u","s","t","o","m">>), Bool(TRUE),
                                        Str(<<"[","{","\"","n","a","m","e","\"",":","\"","d","o","S","o","m","e","t","h","i","n","g","\"",",","\"","i","n","p","u","t","T","y","p","e","\"",":","\"","T","e","x","t","\"",",","\"","o","u","t","p","u","t","T","y","p","e","\"",":","\"","(",")","\"","}","]">>)>>),
                required |-> <<<<"a","b","i","l","i","t","y","N","a","m","e">>>>]
          [] g = <<"j","s","o","n","-","m","a","p","p","e","r","s">> ->
               [defaults |-> ObjectOf(<<<<"f","i","e","l","d","s">>>>, <<Str(<<"i","d",":","T","e","x","t",",","n","a","m","e",":","T","e","x","t">>)>>),
                required |-> <<<<"t","y","p","e","N","a","m","e">>>>]
          [] g = <<"p","a","g","e","-","r","o","u","t","e">> ->
               [defaults |-> ObjectOf(<<<<"h","t","t","p","M","e","t","h","o","d">>, <<"h","a","s","P","a","r","a","m","s">>, <<"h","t","m","l","L","i","b">>>>,
                                      <<Str(<<"G","E","T">>), Bool(FALSE), Str(<<"t","a","p","e","g","r","a","m","_","h","t","m","l","_","2","_","0","_","0">>)>>),
                required |-> <<<<"p","a","g","e","N","a","m","e">>>>]
          [] g = <<"a","p","i","-","c","l","i","e","n","t">> ->
               [defaults |-> ObjectOf(<<<<"b","a","s","e","U","r","l">>, <<"o","p","e","r","a","t","i","o","n","s">>>>,
                                      <<Str(<<"a","p","i",".","e","x","a","m","p","l","e",".","c","o","m">>),
                                        Str(<<"[","{","\"","n","a","m","e","\"",":","\"","g","e","t","D","a","t","a","\"",",","\"","h","t","t","p","M","e","t","h","o","d","\"",":","\"","G","E","T","\"",",","\"","e","n","d","p","o","i","n","t","\"",":","\"","/","d","a","t","a","\"",",","\"","r","e","s","p","o","n","s","e","T","y","p","e","\"",":","\"","J","s","o","n","\"","}","]">>)>>),
                required |-> <<<<"c","l","i","e","n","t","N","a","m","e">>>>]
          [] g = <<"s","e","r","v","i","c","e","-","t","e","s","t","s">> ->
               [defaults |-> ObjectOf(<<<<"o","p","e","r","a","t","i","o","n","s">>>>,
                                      <<Arr(<<Str(<<"c","r","e","a","t","e">>), Str(<<"g","e","t">>), Str(<<"l","i","s","t","A","l","l">>),
                                              Str(<<"u","p","d","a","t","e">>), Str(<<"d","e","l","e","t","e">>)>>)>>),
                required |-> <<<<"s","e","r","v","i","c","e","N","a","m","e">>, <<"e","n","t","i","t","y","N","a","m","e">>>>]]

\* generators[generator]: an own entry, an inherited property of the registry
\* object (truthy, without defaults, required or outputs), or undefined
LookupGenerator(name) ==
    IF name \in DOMAIN generators THEN "own"
    ELSE IF name \in ObjectPrototypeProps THEN "inherited"
    ELSE "undefined"

\* a line of console output
Line(kind, args) == [kind |-> kind, args |-> args]

PreOk(d) == [threw |-> FALSE, data |-> d, log |-> <<>>]

PreThrows(d) == [threw |-> TRUE, data |-> d, log |-> <<>>]

\* data[key] = r, where r is the outcome of the parser call, with the line
\* the parser logged
PreParsed(d, key, r, what) ==
    IF r.threw THEN PreThrows(d)
    ELSE [threw |-> FALSE, data |-> SetProp(d, key, r.value),
          log |-> IF r.logged THEN <<Line(what, <<>>)>> ELSE <<>>]

\* if (typeof data.fields === 'string') data.fields = parseFields(data.fields)
PreProcessFields(d) ==
    IF TypeOf(GetProp(d, <<"f","i","e","l","d","s">>)) = "string"
    THEN PreParsed(d, <<"f","i","e","l","d","s">>, parseFields(GetProp(d, <<"f","i","e","l","d","s">>)),
                   "Failed to parse fields JSON")
    ELSE PreOk(d)

\* if (typeof data.operations === 'string') data.operations = parseOperations(data.operations)
PreProcessOperations(d) ==
    IF TypeOf(GetProp(d, <<"o","p","e","r","a","t","i","o","n","s">>)) = "string"
    THEN PreParsed(d, <<"o","p","e","r","a","t","i","o","n","s">>, parseOperations(GetProp(d, <<"o","p","e","r","a","t","i","o","n","s">>)),
                   "Failed to parse operations JSON")
    ELSE PreOk(d)

\* data.routePath = r, where r is the outcome of helpers.lowercase
PreRoutePath(d, r) ==
    IF r.ok THEN PreOk(SetProp(d, <<"r","o","u","t","e","P","a","t","h">>, Str(r.s))) ELSE PreThrows(d)

\* if (!data.routePath) data.routePath = helpers.lowercase(data.pageName)
PreProcessPageRoute(d) ==
    IF ~Truthy(GetProp(d, <<"r","o","u","t","e","P","a","t","h">>))
    THEN PreRoutePath(d, lowercase(GetProp(d, <<"p","a","g","e","N","a","m","e">>)))
    ELSE PreOk(d)

\* data.operations.split(',').map(s => s.trim())
SplitTrimmed(s) ==
    LET parts == Split(s, ",")
    IN  Arr([n \in 1..Len(parts) |-> Str(Trim(parts[n]))])

\* if (!data.repositoryName) data.repositoryName = data.entityName + 'Repository'
PreRepositoryName(d) ==
    IF ~Truthy(GetProp(d, <<"r","e","p","o","s","i","t","o","r","y","N","a","m","e">>))
    THEN SetProp(d, <<"r","e","p","o","s","i","t","o","r","y","N","a","m","e">>,
                 Str(ToStringPrimitive(GetProp(d, <<"e","n","t","i","t","y","N","a","m","e">>)) \o <<"R","e","p","o","s","i","t","o","r","y">>))
    ELSE d

\* if (typeof data.operations === 'string') data.operations = split and trim
PreOperationNames(d) ==
    IF TypeOf(GetProp(d, <<"o","p","e","r","a","t","i","o","n","s">>)) = "string"
    THEN PreOk(SetProp(d, <<"o","p","e","r","a","t","i","o","n","s">>, SplitTrimmed(GetProp(d, <<"o","p","e","r","a","t","i","o","n","s">>).s)))
    ELSE PreOk(d)

PreProcessServiceTests(d) == PreOperationNames(PreRepositoryName(d))

\* config.preProcess(finalData), when the generator has one
PreProcess(g, d) ==
    CASE g = <<"u","n","i","s","o","n","-","w","e","b","-","a","p","p">> -> PreOk(d)
      [] g \in {<<"c","r","u","d","-","m","o","d","u","l","e">>, <<"j","s","o","n","-","m","a","p","p","e","r","s">>} -> PreProcessFields(d)
      [] g \in {<<"a","b","i","l","i","t","y","-","h","a","n","d","l","e","r">>, <<"a","p","i","-","c","l","i","e","n","t">>} -> PreProcessOperations(d)
      [] g = <<"p","a","g","e","-","r","o","u","t","e">> -> PreProcessPageRoute(d)
      [] g = <<"s","e","r","v","i","c","e","-","t","e","s","t","s">> -> PreProcessServiceTests(d)

\* an output instruction
Output(path, template, append) == [path |-> path, template |-> template, append |-> append]

PlanOk(outs) == [threw |-> FALSE, outs |-> outs]

PlanThrows == [threw |-> TRUE, outs |-> <<>>]

\* [{ path: `${k}${suffix}`, template }], where k is the outcome of kebabCase
SinglePlan(k, suffix, template) ==
    IF k.ok THEN PlanOk(<<Output(k.s \o suffix, template, FALSE)>>) ELSE PlanThrows

\* outputs: (data) => [{ path: `${helpers.kebabCase(data[key])}${suffix}`, template }]
SingleOutput(d, key, suffix, template) ==
    SinglePlan(kebabCase(GetProp(d, key)), suffix, template)

\* a variant that emits the JSON mappers whatever includeJson says
CrudPlan_alwaysJson(d, k) ==
    IF ~k.ok THEN PlanThrows
    ELSE PlanOk(<<Output(k.s \o <<"-","c","r","u","d",".","u">>, <<"c","r","u","d","-","m","o","d","u","l","e",".","u",".","h","b","s">>, FALSE),
                  Output(k.s \o <<"-","c","r","u","d",".","u">>, <<"j","s","o","n","-","m","a","p","p","e","r","s",".","u",".","h","b","s">>, TRUE)>>)

\* a variant whose first instruction is in append mode
CrudPlan_appendFirst(d, k) ==
    IF ~k.ok THEN PlanThrows
    ELSE IF Truthy(GetProp(d, <<"i","n","c","l","u","d","e","J","s","o","n">>))
    THEN PlanOk(<<Output(k.s \o <<"-","c","r","u","d",".","u">>, <<"c","r","u","d","-","m","o","d","u","l","e",".","u",".","h","b","s">>, TRUE),
                  Output(k.s \o <<"-","c","r","u","d",".","u">>, <<"j","s","o","n","-","m","a","p","p","e","r","s",".","u",".","h","b","s">>, TRUE)>>)
    ELSE PlanOk(<<Output(k.s \o <<"-","c","r","u","d",".","u">>, <<"c","r","u","d","-","m","o","d","u","l","e",".","u",".","h","b","s">>, TRUE)>>)

\* the plan of crud-module, where k is the outcome of kebabCase(data.entityName)
CrudPlan(d, k) ==
    IF ~k.ok THEN PlanThrows
    ELSE IF Truthy(GetProp(d, <<"i","n","c","l","u","d","e","J","s","o","n">>))
    THEN PlanOk(<<Output(k.s \o <<"-","c","r","u","d",".","u">>, <<"c","r","u","d","-","m","o","d","u","l","e",".","u",".","h","b","s">>, FALSE),
                  Output(k.s \o <<"-","c","r","u","d",".","u">>, <<"j","s","o","n","-","m","a","p","p","e","r","s",".","u",".","h","b","s">>, TRUE)>>)
    ELSE PlanOk(<<Output(k.s \o <<"-","c","r","u","d",".","u">>, <<"c","r","u","d","-","m","o","d","u","l","e",".","u",".","h","b","s">>, FALSE)>>)

\* the outputs function of crud-module
CrudOutputs(d) == CrudPlan(d, kebabCase(GetProp(d, <<"e","n","t","i","t","y","N","a","m","e">>)))

\* typeof config.outputs === 'function' ? config.outputs(finalData) : config.outputs
Outputs(g, d) ==
    CASE g = <<"u","n","i","s","o","n","-","w","e","b","-","a","p","p">> ->
           PlanOk(<<Output(<<"a","p","p","-","m","a","i","n",".","u">>, <<"a","p","p","-","m","a","i","n",".","u",".","h","b","s">>, FALSE),
                    Output(<<"w","e","b","-","u","t","i","l","i","t","i","e","s",".","u">>, <<"w","e","b","-","u","t","i","l","i","t","i","e","s",".","u",".","h","b","s">>, FALSE)>>)
      [] g = <<"c","r","u","d","-","m","o","d","u","l","e">> -> CrudOutputs(d)
      [] g = <<"a","b","i","l","i","t","y","-","h","a","n","d","l","e","r">> ->
           SingleOutput(d, <<"a","b","i","l","i","t","y","N","a","m","e">>, <<"-","p","o","r","t","-","a","d","a","p","t","e","r",".","u">>, <<"a","b","i","l","i","t","y","-","h","a","n","d","l","e","r",".","u",".","h","b","s">>)
      [] g = <<"j","s","o","n","-","m","a","p","p","e","r","s">> ->
           SingleOutput(d, <<"t","y","p","e","N","a","m","e">>, <<"-","j","s","o","n",".","u">>, <<"j","s","o","n","-","m","a","p","p","e","r","s","-","s","t","a","n","d","a","l","o","n","e",".","u",".","h","b","s">>)
      [] g = <<"p","a","g","e","-","r","o","u","t","e">> ->
           SingleOutput(d, <<"p","a","g","e","N","a","m","e">>, <<"-","p","a","g","e",".","u">>, <<"p","a","g","e","-","r","o","u","t","e",".","u",".","h","b","s">>)
      [] g = <<"a","p","i","-","c","l","i","e","n","t">> ->
           SingleOutput(d, <<"c","l","i","e","n","t","N","a","m","e">>, <<"-","a","p","i","-","c","l","i","e","n","t",".","u">>, <<"a","p","i","-","c","l","i","e","n","t",".","u",".","h","b","s">>)
      [] g = <<"s","e","r","v","i","c","e","-","t","e","s","t","s">> ->
           SingleOutput(d, <<"s","e","r","v","i","c","e","N","a","m","e">>, <<"-","t","e","s","t","s",".","u">>, <<"s","e","r","v","i","c","e","-","t","e","s","t","s",".","u",".","h","b","s">>)

-----------------------------------------------------------------------------
(* The generators of the plopfile *)

PlopGeneratorNames ==
    <<<<"c","r","u","d","-","m","o","d","u","l","e">>, <<"a","b","i","l","i","t","y","-","h","a","n","d","l","e","r">>, <<"j","s","o","n","-","m","a","p","p","e","r","s">>, <<"p","a","g","e","-","r","o","u","t","e">>,
      <<"a","p","i","-","c","l","i","e","n","t">>, <<"s","e","r","v","i","c","e","-","t","e","s","t","s">>, <<"a","u","t","h","-","m","o","d","u","l","e">>, <<"u","n","i","s","o","n","-","w","e","b","-","a","p","p">>>>

\* the defaults of the prompts whose answers the actions functions read
PromptDefaults(g) ==
    CASE g = <<"u","n","i","s","o","n","-","w","e","b","-","a","p","p">> -> EmptyObj
      [] g = <<"c","r","u","d","-","m","o","d","u","l","e">> ->
           ObjectOf(<<<<"i","n","c","l","u","d","e","J","s","o","n">>, <<"a","p","p","e","n","d","T","o">>>>, <<Bool(TRUE), Str(<<>>)>>)
      [] OTHER -> ObjectOf(<<<<"a","p","p","e","n","d","T","o">>>>, <<Str(<<>>)>>)

\* an action of a plopfile generator
Action(type, path, templateFile) ==
    [type |-> type, path |-> path, templateFile |-> templateFile]

\* data.appendTo ? 'append' : 'add'
ActionType(d) == IF Truthy(GetProp(d, <<"a","p","p","e","n","d","T","o">>)) THEN "append" ELSE "add"

\* the text plop renders from the path '{{kebabCase key}}suffix'
RenderedPath(k, suffix) == IF k.ok THEN k.s \o suffix ELSE suffix

\* data.appendTo || '{{kebabCase key}}suffix'
TargetPath(d, key, suffix) ==
    IF Truthy(GetProp(d, <<"a","p","p","e","n","d","T","o">>)) THEN GetProp(d, <<"a","p","p","e","n","d","T","o">>).s
    ELSE RenderedPath(kebabCase(GetProp(d, key)), suffix)

\* actions: (data) => [{ type: actionType, path: targetPath, templateFile }]
SingleAction(d, key, suffix, templateFile) ==
    <<Action(ActionType(d), TargetPath(d, key, suffix), templateFile)>>

\* the actions function of crud-module
CrudActions(d) ==
    IF Truthy(GetProp(d, <<"i","n","c","l","u","d","e","J","s","o","n">>))
    THEN SingleAction(d, <<"e","n","t","i","t","y","N","a","m","e">>, <<"-","c","r","u","d",".","u">>, <<"p","l","o","p","-","t","e","m","p","l","a","t","e","s","/","c","r","u","d","-","m","o","d","u","l","e",".","u",".","h","b","s">>) \o
         <<Action("append", TargetPath(d, <<"e","n","t","i","t","y","N","a","m","e">>, <<"-","c","r","u","d",".","u">>),
                  <<"p","l","o","p","-","t","e","m","p","l","a","t","e","s","/","j","s","o","n","-","m","a","p","p","e","r","s",".","u",".","h","b","s">>)>>
    ELSE SingleAction(d, <<"e","n","t","i","t","y","N","a","m","e">>, <<"-","c","r","u","d",".","u">>, <<"p","l","o","p","-","t","e","m","p","l","a","t","e","s","/","c","r","u","d","-","m","o","d","u","l","e",".","u",".","h","b","s">>)

\* data.appendTo || 'auth.u'
AuthActions(d) ==
    <<Action(ActionType(d),
             IF Truthy(GetProp(d, <<"a","p","p","e","n","d","T","o">>)) THEN GetProp(d, <<"a","p","p","e","n","d","T","o">>).s ELSE <<"a","u","t","h",".","u">>,
             <<"p","l","o","p","-","t","e","m","p","l","a","t","e","s","/","a","u","t","h","-","m","o","d","u","l","e",".","u",".","h","b","s">>)>>

\* the actions of generator g for the answers d
PlopActions(g, d) ==
    CASE g = <<"c","r","u","d","-","m","o","d","u","l","e">> -> CrudActions(d)
      [] g = <<"a","b","i","l","i","t","y","-","h","a","n","d","l","e","r">> ->
           SingleAction(d, <<"a","b","i","l","i","t","y","N","a","m","e">>, <<"-","p","o","r","t","-","a","d","a","p","t","e","r",".","u">>, <<"p","l","o","p","-","t","e","m","p","l","a","t","e","s","/","a","b","i","l","i","t","y","-","h","a","n","d","l","e","r",".","u",".","h","b","s">>)
      [] g = <<"j","s","o","n","-","m","a","p","p","e","r","s">> ->
           SingleAction(d, <<"t","y","p","e","N","a","m","e">>, <<"-","j","s","o","n",".","u">>, <<"p","l","o","p","-","t","e","m","p","l","a","t","e","s","/","j","s","o","n","-","m","a","p","p","e","r","s","-","s","t","a","n","d","a","l","o","n","e",".","u",".","h","b","s">>)
      [] g = <<"p","a","g","e","-","r","o","u","t","e">> ->
           SingleAction(d, <<"p","a","g","e","N","a","m","e">>, <<"-","p","a","g","e",".","u">>, <<"p","l","o","p","-","t","e","m","p","l","a","t","e","s","/","p","a","g","e","-","r","o","u","t","e",".","u",".","h","b","s">>)
      [] g = <<"a","p","i","-","c","l","i","e","n","t">> ->
           SingleAction(d, <<"c","l","i","e","n","t","N","a","m","e">>, <<"-","a","p","i","-","c","l","i","e","n","t",".","u">>, <<"p","l","o","p","-","t","e","m","p","l","a","t","e","s","/","a","p","i","-","c","l","i","e","n","t",".","u",".","h","b","s">>)
      [] g = <<"s","e","r","v","i","c","e","-","t","e","s","t","s">> ->
           SingleAction(d, <<"s","e","r","v","i","c","e","N","a","m","e">>, <<"-","t","e","s","t","s",".","u">>, <<"p","l","o","p","-","t","e","m","p","l","a","t","e","s","/","s","e","r","v","i","c","e","-","t","e","s","t","s",".","u",".","h","b","s">>)
      [] g = <<"a","u","t","h","-","m","o","d","u","l","e">> -> AuthActions(d)
      [] g = <<"u","n","i","s","o","n","-","w","e","b","-","a","p","p">> ->
           <<Action("add", <<"a","p","p",".","u">>, <<"p","l","o","p","-","t","e","m","p","l","a","t","e","s","/","a","p","p","-","c","o","m","b","i","n","e","d",".","u",".","h","b","s">>)>>

\* the answers: the prompt defaults, overridden by the arguments given
PlopAnswers(g, d) == Spread(PromptDefaults(g), d)

-----------------------------------------------------------------------------
(* main *)

\* a variant in which a command-line value wins only when it is truthy
MergeContext_truthyWins(defaults, cli) ==
    [k \in DOMAIN defaults \cup DOMAIN cli |->
        IF k \in DOMAIN cli /\ (Truthy(cli[k]) \/ k \notin DOMAIN defaults)
        THEN cli[k] ELSE defaults[k]]

\* { ...config.defaults, ...data }
MergeContext(defaults, cli) == Spread(defaults, cli)

\* a variant that stops at the first missing argument
MissingRequired_firstOnly(required, d) ==
    LET all == SelectSeq(required, LAMBDA f : ~Truthy(GetProp(d, f)))
    IN  IF all = <<>> THEN <<>> ELSE <<Head(all)>>

\* config.required.filter(f => !finalData[f])
MissingRequired(required, d) ==
    SelectSeq(required, LAMBDA f : ~Truthy(GetProp(d, f)))

\* missing.map(f => '--' + f)
Flagged(names) == [n \in 1..Len(names) |-> <<"-","-">> \o names[n]]

\* what parseArgs prints with no arguments
HelpLines == <<Line("Available generators", GeneratorNames), Line("Usage", <<>>)>>

\* the status process.exit is called with
ExitFailure == <<1>>

ExitSuccess == <<0>>

StillRunning == <<>>

\* the run up to the first output instruction: what main has computed and
\* printed, and exit = StillRunning when the output loop is still to run
MainResult(g, d, m, f, miss, outs, exit, out, err) ==
    [generator |-> g, data |-> d, merged |-> m, finalData |-> f, missing |-> miss,
     outputs |-> outs, exit |-> exit, stdout |-> out, stderr |-> err]

\* a variant whose catch handler logs the error and lets the process end normally
Caught_exitsZero(g, d, m, f, miss, log) ==
    MainResult(g, d, m, f, miss, <<>>, ExitSuccess, <<>>, Append(log, Line("Error", <<"TypeError">>)))

\* main().catch(err => { console.error('Error:', err.message); process.exit(1) })
Caught(g, d, m, f, miss, log) ==
    MainResult(g, d, m, f, miss, <<>>, ExitFailure, <<>>, Append(log, Line("Error", <<"TypeError">>)))

\* the outputs are known: plan is the outcome of evaluating config.outputs
MainPlanned(g, d, fd, pre, plan) ==
    IF plan.threw THEN Caught(g, d, fd, pre.data, <<>>, pre.log)
    ELSE IF plan.outs = <<>>
    THEN MainResult(g, d, fd, pre.data, <<>>, <<>>, ExitSuccess,
                    <<Line("Done", <<>>)>>, pre.log)
    ELSE MainResult(g, d, fd, pre.data, <<>>, plan.outs, StillRunning, <<>>, pre.log)

\* the data is pre-processed: pre is the outcome of config.preProcess
MainPreProcessed(g, d, fd, pre) ==
    IF pre.threw THEN Caught(g, d, fd, fd, <<>>, pre.log)
    ELSE MainPlanned(g, d, fd, pre, Outputs(g.s, pre.data))

\* a variant that pre-processes the data before it looks at the missing ones
MainValidated_lateCheck(g, d, fd, miss) ==
    IF miss # <<>>
    THEN MainResult(g, d, fd, PreProcess(g.s, fd).data, miss, <<>>, ExitFailure, <<>>,
                    <<Line("Missing required arguments", Flagged(miss))>>)
    ELSE MainPreProcessed(g, d, fd, PreProcess(g.s, fd))

\* the required arguments are checked: miss is the list of the missing ones
MainValidated(g, d, fd, miss) ==
    IF miss # <<>>
    THEN MainResult(g, d, fd, fd, miss, <<>>, ExitFailure, <<>>,
                    <<Line("Missing required arguments", Flagged(miss))>>)
    ELSE MainPreProcessed(g, d, fd, PreProcess(g.s, fd))

\* the defaults are applied: fd is finalData
MainMerged(g, d, fd) ==
    MainValidated(g, d, fd, MissingRequired(generators[g.s].required, fd))

\* the body of main for an entry of the registry
RunGenerator(g, d) ==
    MainMerged(g, d, MergeContext(generators[g.s].defaults, d))

\* if (!config) { 'Unknown generator', 'Available generators:', exit(1) }
UnknownGenerator(g, d) ==
    MainResult(g, d, EmptyObj, EmptyObj, <<>>, <<>>, ExitFailure, <<>>,
               <<Line("Unknown generator", <<g.s>>),
                 Line("Available generators", GeneratorNames)>>)

\* generators[generator] is an inherited property: config.defaults is
\* undefined and config.required.filter throws
RunInherited(g, d) ==
    Caught(g, d, Spread(EmptyObj, d), Spread(EmptyObj, d), <<>>, <<>>)

\* main after parseArgs returned p
MainParsed(p) ==
    IF p.help
    THEN MainResult(Null, EmptyObj, EmptyObj, EmptyObj, <<>>, <<>>, ExitSuccess, HelpLines, <<>>)
    ELSE IF ~Truthy(p.generator)
    THEN MainResult(p.generator, p.data, EmptyObj, EmptyObj, <<>>, <<>>, ExitFailure, <<>>,
                    <<Line("No generator specified", <<>>)>>)
    ELSE IF LookupGenerator(p.generator.s) = "undefined"
    THEN UnknownGenerator(p.generator, p.data)
    ELSE IF LookupGenerator(p.generator.s) = "inherited"
    THEN RunInherited(p.generator, p.data)
    ELSE RunGenerator(p.generator, p.data)

main(args) == MainParsed(parseArgs(args))

-----------------------------------------------------------------------------
(* The output loop *)

\* a file's content is a sequence of pieces: literal text, or the text a
\* template renders for a context
Text(chars) == [lit |-> chars, template |-> <<>>, ctx |-> EmptyObj]

\* Handlebars.compile(templateContent)(finalData)
Render(template, ctx) == <<[lit |-> <<>>, template |-> template, ctx |-> ctx]>>

\* fs.existsSync(path)
ExistsSync(files, path) == path \in DOMAIN files

\* fs.writeFileSync(path, content)
WriteFileSync(files, path, content) ==
    [p \in DOMAIN files \cup {path} |-> IF p = path THEN content ELSE files[p]]

\* fs.appendFileSync(path, content)
AppendFileSync(files, path, content) ==
    [p \in DOMAIN files \cup {path} |->
        IF p # path THEN files[p]
        ELSE IF path \in DOMAIN files THEN files[p] \o content
        ELSE content]

\* a variant that appends without the newline separator
WriteRendered_noSeparator(files, output, result) ==
    IF output.append /\ ExistsSync(files, output.path)
    THEN [fs |-> AppendFileSync(files, output.path, result),
          line |-> Line("Appended to", <<output.path>>)]
    ELSE [fs |-> WriteFileSync(files, output.path, result),
          line |-> Line("Created", <<output.path>>)]

\* a variant that appends whenever the target exists, whatever the mode
WriteRendered_appendWhenExists(files, output, result) ==
    IF ExistsSync(files, output.path)
    THEN [fs |-> AppendFileSync(files, output.path, <<Text(<<"\n">>)>> \o result),
          line |-> Line("Appended to", <<output.path>>)]
    ELSE [fs |-> WriteFileSync(files, output.path, result),
          line |-> Line("Created", <<output.path>>)]

\* one iteration of the loop body after the template was rendered
WriteRendered(files, output, result) ==
    IF output.append /\ ExistsSync(files, output.path)
    THEN [fs |-> AppendFileSync(files, output.path, <<Text(<<"\n">>)>> \o result),
          line |-> Line("Appended to", <<output.path>>)]
    ELSE [fs |-> WriteFileSync(files, output.path, result),
          line |-> Line("Created", <<output.path>>)]

\* a variant that appends whenever the file is there
WriteChecked_appendsIfThere(files, output, result, appending) ==
    IF ExistsSync(files, output.path)
    THEN [fs |-> AppendFileSync(files, output.path, <<Text(<<"\n">>)>> \o result),
          line |-> Line("Appended to", <<output.path>>)]
    ELSE [fs |-> WriteFileSync(files, output.path, result),
          line |-> Line("Created", <<output.path>>)]

\* the two branches of the loop body, where appending is what
\* output.append && fs.existsSync(outputPath) gave when it was evaluated
WriteChecked(files, output, result, appending) ==
    IF appending
    THEN [fs |-> AppendFileSync(files, output.path, <<Text(<<"\n">>)>> \o result),
          line |-> Line("Appended to", <<output.path>>)]
    ELSE [fs |-> WriteFileSync(files, output.path, result),
          line |-> Line("Created", <<output.path>>)]

-----------------------------------------------------------------------------
(* The command lines the model runs *)

FirstTokens ==
    {GeneratorNames[n] : n \in 1..Len(GeneratorNames)}
        \cup {<<>>, <<"c","o","n","s","t","r","u","c","t","o","r">>, <<"_","_","p","r","o","t","o","_","_">>, <<"t","o","S","t","r","i","n","g">>, <<"-","-","e","n","t","i","t","y","N","a","m","e">>}

LaunchTokens(first) ==
    CASE first = <<"c","r","u","d","-","m","o","d","u","l","e">> -> {<<"-","-","e","n","t","i","t","y","N","a","m","e">>, <<"-","-","i","n","c","l","u","d","e","J","s","o","n">>, <<"f","a","l","s","e">>, <<"a","B">>}
      [] first = <<"s","e","r","v","i","c","e","-","t","e","s","t","s">> -> {<<"-","-","s","e","r","v","i","c","e","N","a","m","e">>, <<"-","-","e","n","t","i","t","y","N","a","m","e">>, <<"f","a","l","s","e">>, <<"a","B">>}
      [] first = <<"u","n","i","s","o","n","-","w","e","b","-","a","p","p">> -> {<<"-","-","a","p","p","N","a","m","e">>, <<"f","a","l","s","e">>, <<"a","B">>}
      [] first = <<"a","b","i","l","i","t","y","-","h","a","n","d","l","e","r">> -> {<<"-","-","a","b","i","l","i","t","y","N","a","m","e">>, <<"f","a","l","s","e">>, <<"a","B">>}
      [] first = <<"j","s","o","n","-","m","a","p","p","e","r","s">> -> {<<"-","-","t","y","p","e","N","a","m","e">>, <<"f","a","l","s","e">>, <<"a","B">>}
      [] first = <<"p","a","g","e","-","r","o","u","t","e">> -> {<<"-","-","p","a","g","e","N","a","m","e">>, <<"f","a","l","s","e">>, <<"a","B">>}
      [] first = <<"a","p","i","-","c","l","i","e","n","t">> -> {<<"-","-","c","l","i","e","n","t","N","a","m","e">>, <<"f","a","l","s","e">>, <<"a","B">>}
      [] OTHER -> {<<"-","-","e","n","t","i","t","y","N","a","m","e">>, <<"a","B">>}

ArgvSet ==
    {<<>>} \cup
    UNION {{<<first>> \o rest : rest \in SeqsUpTo(LaunchTokens(first), MaxArgs)} :
              first \in FirstTokens}

\* the generators with a spec-valued argument, and that argument's flag
SpecFlag(first) ==
    IF first \in {<<"c","r","u","d","-","m","o","d","u","l","e">>, <<"j","s","o","n","-","m","a","p","p","e","r","s">>} THEN <<"-","-","f","i","e","l","d","s">> ELSE <<"-","-","o","p","e","r","a","t","i","o","n","s">>

\* the flag of the first required argument
RequiredFlag(first) == <<"-","-">> \o generators[first].required[1]

\* command lines that pass the spec-valued argument in every form
FlagArgvSet ==
    UNION {{<<first>> \o rest :
              rest \in SeqsUpTo({RequiredFlag(first), SpecFlag(first), <<"a","B">>, <<"f","a","l","s","e">>, <<"[","1","]">>},
                                MaxArgs)} :
              first \in {<<"c","r","u","d","-","m","o","d","u","l","e">>, <<"j","s","o","n","-","m","a","p","p","e","r","s">>, <<"a","b","i","l","i","t","y","-","h","a","n","d","l","e","r">>,
                         <<"a","p","i","-","c","l","i","e","n","t">>, <<"s","e","r","v","i","c","e","-","t","e","s","t","s">>}}

\* the names given for the required arguments
PlopNames == {<<"a","B">>, <<"a","_","b">>, <<"a","p","p">>}

\* the flags of the required arguments of a generator, each with the name
NameArgs(first, name) ==
    IF first \notin DOMAIN generators THEN <<>>
    ELSE IF Len(generators[first].required) = 1
    THEN <<RequiredFlag(first), name>>
    ELSE <<RequiredFlag(first), name, <<"-","-">> \o generators[first].required[2], name>>

\* command lines of every generator, with and without --appendTo and
\* --includeJson false
PlopArgvSet ==
    {<<first>> \o NameArgs(first, name) \o appendTo \o includeJson :
        first \in {PlopGeneratorNames[n] : n \in 1..Len(PlopGeneratorNames)},
        name \in PlopNames,
        appendTo \in {<<>>, <<<<"-","-","a","p","p","e","n","d","T","o">>, <<"a","p","p",".","u">>>>, <<<<"-","-","a","p","p","e","n","d","T","o">>, <<"a","-","b","-","c","r","u","d",".","u">>>>},
        includeJson \in {<<>>, <<<<"-","-","i","n","c","l","u","d","e","J","s","o","n">>, <<"f","a","l","s","e">>>>}}

\* the processes that run main side by side
Procs == {1, 2}

\* command lines of concurrent invocations: three with the target a-b-crud.u,
\* one with another target
ConcArgvSet ==
    {<<<<"c","r","u","d","-","m","o","d","u","l","e">>, <<"-","-","e","n","t","i","t","y","N","a","m","e">>, <<"a","B">>>>,
     <<<<"c","r","u","d","-","m","o","d","u","l","e">>, <<"-","-","e","n","t","i","t","y","N","a","m","e">>, <<"a","_","b">>>>,
     <<<<"c","r","u","d","-","m","o","d","u","l","e">>, <<"-","-","e","n","t","i","t","y","N","a","m","e">>, <<"a","B">>, <<"-","-","i","n","c","l","u","d","e","J","s","o","n">>, <<"f","a","l","s","e">>>>,
     <<<<"j","s","o","n","-","m","a","p","p","e","r","s">>, <<"-","-","t","y","p","e","N","a","m","e">>, <<"a","B">>>>}

ArgTokens ==
    {<<"c","r","u","d","-","m","o","d","u","l","e">>, <<"-","-","e","n","t","i","t","y","N","a","m","e">>, <<"-","-","a","p","p","e","n","d","T","o">>, <<"-","-">>, <<>>, <<"t","r","u","e">>, <<"f","a","l","s","e">>,
     <<"T","r","u","e">>, <<" ","t","r","u","e">>, <<"a","B">>}

ParseAlphabet == {"[", "]", ",", ":", " ", "a", "1"}

\* pieces of JSON text, put together into the inputs of the JSON path
JsonTokens == {<<"[">>, <<"]">>, <<",">>, <<" ">>, <<"1">>, <<"{","\"","n","a","m","e","\"",":","\"","a","\"","}">>}

RECURSIVE Flatten(_)
Flatten(ss) == IF ss = <<>> THEN <<>> ELSE Head(ss) \o Flatten(Tail(ss))

JsonTexts == {Flatten(ts) : ts \in SeqsUpTo(JsonTokens, MaxTokens)}

\* the characters the case helpers look at
CaseAlphabet == {"a", "B", "-", "_", " ", "\n"}

\* the endings pluralize looks at
WordAlphabet == {"y", "s", "x", "c", "h", "a"}

ExampleWords == {<<"U","s","e","r","N","a","m","e">>, <<"u","s","e","r","-","n","a","m","e">>, <<"u","s","e","r","_","n","a","m","e">>, <<"t","a","s","k">>, <<"c","a","t","e","g","o","r","y">>, <<"b","o","x">>}

HelperTexts ==
    SeqsUpTo(CaseAlphabet, MaxLen) \cup SeqsUpTo(WordAlphabet, MaxLen) \cup ExampleWords

BaseTypes == {<<"T","e","x","t">>, <<"N","a","t">>, <<"I","n","t">>, <<"F","l","o","a","t">>, <<"B","o","o","l","e","a","n">>, <<"U","s","e","r">>, <<"t","e","x","t">>, <<>>}

\* the type strings with at most n wrappers around a base type
RECURSIVE WrappedTypes(_)
WrappedTypes(n) ==
    IF n = 0 THEN BaseTypes
    ELSE WrappedTypes(n - 1)
         \cup {<<"O","p","t","i","o","n","a","l"," ">> \o t : t \in WrappedTypes(n - 1)}
         \cup {<<"[">> \o t \o <<"]">> : t \in WrappedTypes(n - 1)}

FieldNames == {<<"i","d">>, <<"a">>}

\* fields as parseFields returns them, and one without a type
FieldInputs ==
    {Obj(<<<<"n","a","m","e">>, <<"t","y","p","e">>>>, <<Str(n), Str(t)>>) :
        n \in FieldNames, t \in WrappedTypes(MaxWrap)}
    \cup {Obj(<<<<"n","a","m","e">>>>, <<Str(n)>>) : n \in FieldNames}

-----------------------------------------------------------------------------
(* The process and the file system *)

EmptyFs == [p \in {} |-> <<>>]

MainIdle ==
    /\ argv = <<>>
    /\ pc = "idle"
    /\ generator = Null
    /\ data = EmptyObj
    /\ merged = EmptyObj
    /\ finalData = EmptyObj
    /\ missing = <<>>
    /\ outputs = <<>>
    /\ idx = 1
    /\ fs = EmptyFs
    /\ fsBefore = EmptyFs
    /\ exitCode = StillRunning
    /\ stdout = <<>>
    /\ stderr = <<>>
    /\ runs = 0

ParserIdle ==
    /\ input = Undef
    /\ fieldsResult = NotCalled
    /\ opsResult = NotCalled

HelperIdle ==
    /\ helperInput = Undef
    /\ helperName = "none"
    /\ helperResult = HelperNotCalled

TypeIdle ==
    /\ fieldInput = Undef
    /\ typeFn = "none"
    /\ typeResult = HelperNotCalled

PlopIdle ==
    /\ plopArgv = <<>>
    /\ plopActions = <<>>

\* a process that was not launched
NotStarted ==
    [pc |-> "none", outputs |-> <<>>, ctx |-> EmptyObj, idx |-> 1,
     appending |-> FALSE, stdout |-> <<>>]

ProcsIdle ==
    /\ procs = [p \in Procs |-> NotStarted]
    /\ started = <<>>
    /\ overlapped = FALSE

Init == MainIdle /\ ParserIdle /\ HelperIdle /\ TypeIdle /\ PlopIdle /\ ProcsIdle

\* node plop-cli.js args: main up to the output loop
Invoke ==
    /\ pc = "idle"
    /\ runs < MaxRuns
    /\ \E args \in ArgvSet :
          \E r \in {main(args)} :
              /\ argv' = args
              /\ generator' = r.generator
              /\ data' = r.data
              /\ merged' = r.merged
              /\ finalData' = r.finalData
              /\ missing' = r.missing
              /\ outputs' = r.outputs
              /\ exitCode' = r.exit
              /\ stdout' = r.stdout
              /\ stderr' = r.stderr
              /\ pc' = IF r.exit = StillRunning THEN "writing" ELSE "exited"
    /\ idx' = 1
    /\ fsBefore' = fs
    /\ runs' = runs + 1
    /\ UNCHANGED <<fs, input, fieldsResult, opsResult, helperVars, typeVars, plopVars, procVars>>

\* the same step for a command line that passes a spec-valued argument
InvokeWithSpecs ==
    /\ pc = "idle"
    /\ runs = 0
    /\ \E args \in FlagArgvSet :
          \E r \in {main(args)} :
              /\ argv' = args
              /\ generator' = r.generator
              /\ data' = r.data
              /\ merged' = r.merged
              /\ finalData' = r.finalData
              /\ missing' = r.missing
              /\ outputs' = r.outputs
              /\ exitCode' = r.exit
              /\ stdout' = r.stdout
              /\ stderr' = r.stderr
              /\ pc' = IF r.exit = StillRunning THEN "writing" ELSE "exited"
    /\ idx' = 1
    /\ fsBefore' = fs
    /\ runs' = runs + 1
    /\ UNCHANGED <<fs, input, fieldsResult, opsResult, helperVars, typeVars, plopVars, procVars>>

\* the plopfile generator named on the command line computes its actions
PlopGenerate ==
    /\ pc = "idle"
    /\ plopActions = <<>>
    /\ \E args \in PlopArgvSet :
          /\ plopArgv' = args
          /\ plopActions' = PlopActions(args[1], PlopAnswers(args[1], parseArgs(args).data))
    /\ UNCHANGED <<mainVars, parserVars, helperVars, typeVars, procVars>>

\* node plop-cli.js with the command line the plopfile generator was given
InvokeSame ==
    /\ pc = "idle"
    /\ runs = 0
    /\ plopActions # <<>>
    /\ \E r \in {main(plopArgv)} :
          /\ argv' = plopArgv
          /\ generator' = r.generator
          /\ data' = r.data
          /\ merged' = r.merged
          /\ finalData' = r.finalData
          /\ missing' = r.missing
          /\ outputs' = r.outputs
          /\ exitCode' = r.exit
          /\ stdout' = r.stdout
          /\ stderr' = r.stderr
          /\ pc' = IF r.exit = StillRunning THEN "writing" ELSE "exited"
    /\ idx' = 1
    /\ fsBefore' = fs
    /\ runs' = runs + 1
    /\ UNCHANGED <<fs, input, fieldsResult, opsResult, helperVars, typeVars, plopVars, procVars>>

\* one iteration of the output loop; after the last one main prints Done and
\* the process ends with status 0
WriteOutput ==
    /\ pc = "writing"
    /\ idx <= Len(outputs)
    /\ LET w == WriteRendered(fs, outputs[idx], Render(outputs[idx].template, finalData))
           last == idx = Len(outputs)
       IN  /\ fs' = w.fs
           /\ stdout' = IF last THEN stdout \o <<w.line, Line("Done", <<>>)>>
                        ELSE Append(stdout, w.line)
           /\ pc' = IF last THEN "exited" ELSE "writing"
           /\ exitCode' = IF last THEN ExitSuccess ELSE StillRunning
    /\ idx' = idx + 1
    /\ UNCHANGED <<argv, generator, data, merged, finalData, missing, outputs,
                   fsBefore, stderr, runs, input, fieldsResult, opsResult, helperVars, typeVars, plopVars, procVars>>

\* a variant that logs the failed read and goes on with the next instruction
ReadTemplateFails_continues ==
    /\ pc = "writing"
    /\ idx <= Len(outputs)
    /\ stderr' = Append(stderr, Line("Error", <<"readFileSync">>))
    /\ idx' = idx + 1
    /\ pc' = IF idx = Len(outputs) THEN "exited" ELSE "writing"
    /\ exitCode' = IF idx = Len(outputs) THEN ExitFailure ELSE StillRunning
    /\ UNCHANGED <<argv, generator, data, merged, finalData, missing, outputs,
                   fs, fsBefore, stdout, runs, input, fieldsResult, opsResult, helperVars, typeVars, plopVars, procVars>>

\* fs.readFileSync(templatePath) throws: caught by main().catch
ReadTemplateFails ==
    /\ pc = "writing"
    /\ idx <= Len(outputs)
    /\ stderr' = Append(stderr, Line("Error", <<"readFileSync">>))
    /\ pc' = "exited"
    /\ exitCode' = ExitFailure
    /\ UNCHANGED <<argv, generator, data, merged, finalData, missing, outputs, idx,
                   fs, fsBefore, stdout, runs, input, fieldsResult, opsResult, helperVars, typeVars, plopVars, procVars>>

\* fs.writeFileSync or fs.appendFileSync throws: caught by main().catch
WriteFileFails ==
    /\ pc = "writing"
    /\ idx <= Len(outputs)
    /\ stderr' = Append(stderr, Line("Error", <<"writeFileSync">>))
    /\ pc' = "exited"
    /\ exitCode' = ExitFailure
    /\ UNCHANGED <<argv, generator, data, merged, finalData, missing, outputs, idx,
                   fs, fsBefore, stdout, runs, input, fieldsResult, opsResult, helperVars, typeVars, plopVars, procVars>>

\* the process is gone; only the file system remains for the next invocation
Reap ==
    /\ pc = "exited"
    /\ runs < MaxRuns
    /\ argv' = <<>>
    /\ pc' = "idle"
    /\ generator' = Null
    /\ data' = EmptyObj
    /\ merged' = EmptyObj
    /\ finalData' = EmptyObj
    /\ missing' = <<>>
    /\ outputs' = <<>>
    /\ idx' = 1
    /\ fsBefore' = fs
    /\ exitCode' = StillRunning
    /\ stdout' = <<>>
    /\ stderr' = <<>>
    /\ UNCHANGED <<fs, runs, input, fieldsResult, opsResult, helperVars, typeVars, plopVars, procVars>>

Next == Invoke \/ WriteOutput \/ ReadTemplateFails \/ WriteFileFails \/ Reap

Spec == Init /\ [][Next]_vars

\* one invocation with a spec-valued argument on the command line
NextSpecs == InvokeWithSpecs \/ WriteOutput \/ ReadTemplateFails \/ WriteFileFails

SpecSpecs == Init /\ [][NextSpecs]_vars

-----------------------------------------------------------------------------
(* Invocations side by side on one file system *)

\* process p runs main up to the output loop
Launch(p) ==
    /\ pc = "idle"
    /\ procs[p].pc = "none"
    /\ \E args \in ConcArgvSet :
          \E r \in {main(args)} :
              procs' = [procs EXCEPT ![p] =
                           [pc |-> IF r.exit = StillRunning THEN "check" ELSE "done",
                            outputs |-> r.outputs, ctx |-> r.finalData, idx |-> 1,
                            appending |-> FALSE, stdout |-> r.stdout]]
    /\ started' = Append(started, p)
    /\ overlapped' = (overlapped \/ \E q \in Procs \ {p} : procs[q].pc \in {"check", "write"})
    /\ UNCHANGED <<mainVars, parserVars, helperVars, typeVars, plopVars>>

\* process p reads and renders the template of its next instruction and
\* evaluates output.append && fs.existsSync(outputPath)
ExistsCheck(p) ==
    /\ procs[p].pc = "check"
    /\ procs' = [procs EXCEPT ![p].pc = "write",
                              ![p].appending =
                                  /\ procs[p].outputs[procs[p].idx].append
                                  /\ ExistsSync(fs, procs[p].outputs[procs[p].idx].path)]
    /\ UNCHANGED <<mainVars, parserVars, helperVars, typeVars, plopVars, started, overlapped>>

\* process p appends to or writes the file, on the branch its check chose,
\* and prints the line; after the last instruction it prints Done
WriteFile(p) ==
    /\ procs[p].pc = "write"
    /\ LET output == procs[p].outputs[procs[p].idx]
           last == procs[p].idx = Len(procs[p].outputs)
           w == WriteChecked(fs, output, Render(output.template, procs[p].ctx),
                             procs[p].appending)
       IN  /\ fs' = w.fs
           /\ procs' = [procs EXCEPT ![p].pc = IF last THEN "done" ELSE "check",
                                     ![p].idx = procs[p].idx + 1,
                                     ![p].stdout =
                                         IF last THEN procs[p].stdout \o <<w.line, Line("Done", <<>>)>>
                                         ELSE Append(procs[p].stdout, w.line)]
    /\ UNCHANGED <<argv, pc, generator, data, merged, finalData, missing, outputs, idx,
                   fsBefore, exitCode, stdout, stderr, runs,
                   parserVars, helperVars, typeVars, plopVars, started, overlapped>>

NextConcurrent ==
    \E p \in Procs : Launch(p) \/ ExistsCheck(p) \/ WriteFile(p)

SpecConcurrent == Init /\ [][NextConcurrent]_vars

\* the plopfile and the wrapper on the same command line
NextPlop == PlopGenerate \/ InvokeSame \/ WriteOutput \/ ReadTemplateFails \/ WriteFileFails

SpecPlop == Init /\ [][NextPlop]_vars

-----------------------------------------------------------------------------
(* parseArgs on its own *)

InitArgs ==
    /\ argv \in SeqsUpTo(ArgTokens, MaxArgvLen)
    /\ pc = "start"
    /\ generator = Null
    /\ data = EmptyObj
    /\ merged = EmptyObj
    /\ finalData = EmptyObj
    /\ missing = <<>>
    /\ outputs = <<>>
    /\ idx = 1
    /\ fs = EmptyFs
    /\ fsBefore = EmptyFs
    /\ exitCode = StillRunning
    /\ stdout = <<>>
    /\ stderr = <<>>
    /\ runs = 0
    /\ ParserIdle
    /\ HelperIdle
    /\ TypeIdle
    /\ PlopIdle
    /\ ProcsIdle

CallParseArgs ==
    /\ pc = "start"
    /\ LET r == parseArgs(argv)
       IN  /\ generator' = r.generator
           /\ data' = r.data
           /\ pc' = IF r.help THEN "exited" ELSE "parsed"
           /\ exitCode' = IF r.help THEN ExitSuccess ELSE StillRunning
           /\ stdout' = IF r.help THEN HelpLines ELSE <<>>
    /\ UNCHANGED <<argv, merged, finalData, missing, outputs, idx, fs, fsBefore,
                   stderr, runs, input, fieldsResult, opsResult, helperVars, typeVars, plopVars, procVars>>

NextArgs == CallParseArgs

SpecArgs == InitArgs /\ [][NextArgs]_vars

-----------------------------------------------------------------------------
(* parseFields and parseOperations on their own *)

InitParse ==
    /\ MainIdle
    /\ input \in {Str(s) : s \in SeqsUpTo(ParseAlphabet, MaxLen)}
    /\ fieldsResult = NotCalled
    /\ opsResult = NotCalled
    /\ HelperIdle
    /\ TypeIdle
    /\ PlopIdle
    /\ ProcsIdle

CallParseFields ==
    /\ ~fieldsResult.called
    /\ ~opsResult.called
    /\ fieldsResult' = parseFields(input)
    /\ UNCHANGED <<mainVars, input, opsResult, helperVars, typeVars, plopVars, procVars>>

CallParseOperations ==
    /\ ~fieldsResult.called
    /\ ~opsResult.called
    /\ opsResult' = parseOperations(input)
    /\ UNCHANGED <<mainVars, input, fieldsResult, helperVars, typeVars, plopVars, procVars>>

NextParse == CallParseFields \/ CallParseOperations

SpecParse == InitParse /\ [][NextParse]_vars

\* parseFields and parseOperations on inputs put together from JSON tokens
InitJson ==
    /\ MainIdle
    /\ input \in {Str(s) : s \in JsonTexts}
    /\ fieldsResult = NotCalled
    /\ opsResult = NotCalled
    /\ HelperIdle
    /\ TypeIdle
    /\ PlopIdle
    /\ ProcsIdle

SpecJson == InitJson /\ [][NextParse]_vars

-----------------------------------------------------------------------------
(* The case helpers on their own *)

InitHelpers ==
    /\ MainIdle
    /\ ParserIdle
    /\ TypeIdle
    /\ PlopIdle
    /\ ProcsIdle
    /\ helperInput \in {Str(s) : s \in HelperTexts}
    /\ helperName = "none"
    /\ helperResult = HelperNotCalled

CallPascalCase ==
    /\ helperName = "none"
    /\ helperName' = "pascalCase"
    /\ helperResult' = pascalCase(helperInput)
    /\ UNCHANGED <<mainVars, parserVars, typeVars, plopVars, procVars, helperInput>>

CallCamelCase ==
    /\ helperName = "none"
    /\ helperName' = "camelCase"
    /\ helperResult' = camelCase(helperInput)
    /\ UNCHANGED <<mainVars, parserVars, typeVars, plopVars, procVars, helperInput>>

CallKebabCase ==
    /\ helperName = "none"
    /\ helperName' = "kebabCase"
    /\ helperResult' = kebabCase(helperInput)
    /\ UNCHANGED <<mainVars, parserVars, typeVars, plopVars, procVars, helperInput>>

CallPluralize ==
    /\ helperName = "none"
    /\ helperName' = "pluralize"
    /\ helperResult' = pluralize(helperInput)
    /\ UNCHANGED <<mainVars, parserVars, typeVars, plopVars, procVars, helperInput>>

NextHelpers == CallPascalCase \/ CallCamelCase \/ CallKebabCase \/ CallPluralize

SpecHelpers == InitHelpers /\ [][NextHelpers]_vars

-----------------------------------------------------------------------------
(* The field type helpers on their own *)

InitTypes ==
    /\ MainIdle
    /\ ParserIdle
    /\ HelperIdle
    /\ PlopIdle
    /\ ProcsIdle
    /\ fieldInput \in FieldInputs
    /\ typeFn = "none"
    /\ typeResult = HelperNotCalled

CallGetAddFn ==
    /\ typeFn = "none"
    /\ typeFn' = "getAddFn"
    /\ typeResult' = HelperOk(getAddFn(Member(fieldInput, <<"t","y","p","e">>)))
    /\ UNCHANGED <<mainVars, parserVars, helperVars, plopVars, procVars, fieldInput>>

CallGetDecoderForType ==
    /\ typeFn = "none"
    /\ typeFn' = "getDecoderForType"
    /\ typeResult' = HelperOk(getDecoderForType(Member(fieldInput, <<"t","y","p","e">>)))
    /\ UNCHANGED <<mainVars, parserVars, helperVars, plopVars, procVars, fieldInput>>

CallGetEncoderForType ==
    /\ typeFn = "none"
    /\ typeFn' = "getEncoderForType"
    /\ typeResult' = HelperOk(getEncoderForType(Member(fieldInput, <<"t","y","p","e">>)))
    /\ UNCHANGED <<mainVars, parserVars, helperVars, plopVars, procVars, fieldInput>>

CallEncoderField ==
    /\ typeFn = "none"
    /\ typeFn' = "encoderField"
    /\ typeResult' = encoderField(fieldInput)
    /\ UNCHANGED <<mainVars, parserVars, helperVars, plopVars, procVars, fieldInput>>

CallDecoderField ==
    /\ typeFn = "none"
    /\ typeFn' = "decoderField"
    /\ typeResult' = decoderField(fieldInput)
    /\ UNCHANGED <<mainVars, parserVars, helperVars, plopVars, procVars, fieldInput>>

NextTypes ==
    \/ CallGetAddFn
    \/ CallGetDecoderForType
    \/ CallGetEncoderForType
    \/ CallEncoderField
    \/ CallDecoderField

SpecTypes == InitTypes /\ [][NextTypes]_vars

-----------------------------------------------------------------------------
(* The output loop on its own: any plan against any file system *)

WriterPaths == {<<"a",".","u">>, <<"b",".","u">>}

WriterTemplates == {<<"c","r","u","d","-","m","o","d","u","l","e",".","u",".","h","b","s">>, <<"j","s","o","n","-","m","a","p","p","e","r","s",".","u",".","h","b","s">>}

WriterContents == SeqsUpTo({Text(<<"x">>)}, MaxPieces)

WriterFileSystems ==
    UNION {[present -> WriterContents] : present \in SUBSET WriterPaths}

WriterPlans ==
    SeqsUpTo({Output(p, t, a) : p \in WriterPaths, t \in WriterTemplates, a \in BOOLEAN},
             MaxPlan) \ {<<>>}

InitWriter ==
    /\ argv = <<>>
    /\ pc = "writing"
    /\ generator = Null
    /\ data = EmptyObj
    /\ merged = EmptyObj
    /\ finalData = EmptyObj
    /\ missing = <<>>
    /\ outputs \in WriterPlans
    /\ idx = 1
    /\ fs \in WriterFileSystems
    /\ fsBefore = fs
    /\ exitCode = StillRunning
    /\ stdout = <<>>
    /\ stderr = <<>>
    /\ runs = 1
    /\ ParserIdle
    /\ HelperIdle
    /\ TypeIdle
    /\ PlopIdle
    /\ ProcsIdle

NextWriter == WriteOutput \/ ReadTemplateFails \/ WriteFileFails

SpecWriter == InitWriter /\ [][NextWriter]_vars

-----------------------------------------------------------------------------
(* Properties *)

IsPrefix(a, b) ==
    /\ Len(a) <= Len(b)
    /\ SubSeq(b, 1, Len(a)) = a

\* the invocation named one of the registered generators
Registered ==
    /\ argv # <<>>
    /\ argv[1] \in {GeneratorNames[n] : n \in 1..Len(GeneratorNames)}

\* the lines of stdout that report a written file
WrittenLines == SelectSeq(stdout, LAMBDA l : l.kind \in {"Created", "Appended to"})

\* this step is one iteration of the output loop that wrote its file
IsWriteStep ==
    /\ pc = "writing"
    /\ idx <= Len(outputs)
    /\ idx' = idx + 1

\* C1: when required arguments are absent or falsy in the merged context,
\* the run fails with one error line that names exactly those arguments,
\* all of them, in the order of the generator's required list.
C1_AllMissingNamed ==
    (pc # "idle" /\ Registered) =>
        LET required == generators[argv[1]].required
            absent(f) == f \notin DOMAIN merged \/ ~Truthy(merged[f])
            expected == SelectSeq(required, absent)
        IN  expected # <<>> =>
                /\ pc = "exited"
                /\ exitCode = <<1>>
                /\ Len(stderr) = 1
                /\ stderr[1].kind = "Missing required arguments"
                /\ stderr[1].args = [n \in 1..Len(expected) |-> <<"-","-">> \o expected[n]]

\* service-tests run with entityName given as false and serviceName absent:
\* both are named
C1_Witness ==
    /\ pc = "exited"
    /\ Registered
    /\ argv[1] = <<"s","e","r","v","i","c","e","-","t","e","s","t","s">>
    /\ <<"e","n","t","i","t","y","N","a","m","e">> \in DOMAIN merged
    /\ Len(stderr) = 1
    /\ stderr[1].args = <<<<"-","-","s","e","r","v","i","c","e","N","a","m","e">>, <<"-","-","e","n","t","i","t","y","N","a","m","e">>>>

\* C2: the content a file held before an invocation is still there, as a
\* prefix of the file's content, when the invocation has ended.
C2_NoClobber ==
    pc = "exited" =>
        \A p \in DOMAIN fsBefore :
            /\ p \in DOMAIN fs
            /\ IsPrefix(fsBefore[p], fs[p])

\* C3: an append-mode instruction whose target exists leaves the previous
\* content, one newline, then the rendered text.
C3_AppendKeepsContent ==
    [][(IsWriteStep /\ outputs[idx].append /\ outputs[idx].path \in DOMAIN fs) =>
          /\ outputs[idx].path \in DOMAIN fs'
          /\ fs'[outputs[idx].path] =
                fs[outputs[idx].path] \o <<Text(<<"\n">>)>>
                    \o Render(outputs[idx].template, finalData)]_vars

\* two successive append-mode writes to an existing file: the first render,
\* a newline, the second render, after what the file held
C3_Witness ==
    /\ pc = "exited"
    /\ Len(outputs) = 2
    /\ outputs[1].append /\ outputs[2].append
    /\ outputs[1].path = outputs[2].path
    /\ outputs[1].template # outputs[2].template
    /\ outputs[1].path \in DOMAIN fsBefore
    /\ fsBefore[outputs[1].path] # <<>>
    /\ Len(WrittenLines) = 2
    /\ fs[outputs[1].path] =
          fsBefore[outputs[1].path]
              \o <<Text(<<"\n">>)>> \o Render(outputs[1].template, finalData)
              \o <<Text(<<"\n">>)>> \o Render(outputs[2].template, finalData)

\* C4: an instruction that is not (append mode and target exists) leaves
\* exactly the rendered text in the target file.
C4_CreateWritesExactly ==
    [][(IsWriteStep /\ ~(outputs[idx].append /\ outputs[idx].path \in DOMAIN fs)) =>
          /\ outputs[idx].path \in DOMAIN fs'
          /\ fs'[outputs[idx].path] = Render(outputs[idx].template, finalData)]_vars

\* append mode against an absent path, and create mode over existing content
C4_Witness ==
    /\ pc = "exited"
    /\ Len(outputs) = 2
    /\ outputs[1].append /\ ~outputs[2].append
    /\ outputs[1].path # outputs[2].path
    /\ outputs[1].path \notin DOMAIN fsBefore
    /\ outputs[2].path \in DOMAIN fsBefore
    /\ fsBefore[outputs[2].path] # <<>>
    /\ Len(WrittenLines) = 2
    /\ fs[outputs[1].path] = Render(outputs[1].template, finalData)
    /\ fs[outputs[2].path] = Render(outputs[2].template, finalData)

\* C5: the exit status is 0 exactly in help mode or when every planned output
\* was written; it is not 0 on an unknown generator, on missing required
\* arguments, or on a failed template read or file write.
C5_ExitCode ==
    pc = "exited" =>
        /\ exitCode \in {<<0>>, <<1>>}
        /\ exitCode = <<0>> <=>
              \/ argv = <<>>
              \/ outputs # <<>> /\ Len(WrittenLines) = Len(outputs)
        /\ (argv # <<>> /\ ~Registered) => exitCode # <<0>>
        /\ missing # <<>> => exitCode # <<0>>
        /\ (\E n \in 1..Len(stderr) : stderr[n].kind = "Error") => exitCode # <<0>>

\* a crud-module run that wrote both of its outputs and ended with status 0
C5_Witness ==
    /\ pc = "exited"
    /\ exitCode = <<0>>
    /\ Len(outputs) = 2
    /\ Len(WrittenLines) = 2

\* C6: a first token that is not a registered generator name gets the
\* unknown-generator error with the list of names and a failure status,
\* and no argument is resolved and no file is written.
C6_UnknownGeneratorReported ==
    (pc = "exited" /\ argv # <<>> /\ ~Registered) =>
        /\ stderr = <<Line("Unknown generator", <<argv[1]>>),
                      Line("Available generators", GeneratorNames)>>
        /\ exitCode = <<1>>
        /\ merged = EmptyObj
        /\ fs = fsBefore

\* the flag tokens of argv: every token after the first that starts with --
IsFlagAt(i) == i \in 2..Len(argv) /\ StartsWith(argv[i], <<"-","-">>)

\* no later flag token has the same key
IsLastOfKey(i) == \A j \in (i + 1)..Len(argv) : ~(IsFlagAt(j) /\ argv[j] = argv[i])

\* the value a consumed token is stored as
StoredValue(token) ==
    IF token = <<"t","r","u","e">> THEN Bool(TRUE)
    ELSE IF token = <<"f","a","l","s","e">> THEN Bool(FALSE)
    ELSE Str(token)

\* C7: a flag followed by a token that does not start with -- (the empty
\* string included) holds that token's value; a flag that is last, or is
\* followed by a token starting with --, holds true.
C7_NextTokenConsumed ==
    pc = "parsed" =>
        \A i \in 2..Len(argv) :
            (IsFlagAt(i) /\ IsLastOfKey(i)) =>
                LET key == Slice(argv[i], 2)
                IN  /\ key \in DOMAIN data
                    /\ data[key] =
                          IF i < Len(argv) /\ ~StartsWith(argv[i + 1], <<"-","-">>)
                          THEN StoredValue(argv[i + 1])
                          ELSE Bool(TRUE)

\* C8: a consumed value is stored as a boolean exactly when it is the string
\* true or false; any other consumed value is stored as the same string.
C8_OnlyLiteralBooleans ==
    pc = "parsed" =>
        \A i \in 2..(Len(argv) - 1) :
            (/\ IsFlagAt(i)
             /\ IsLastOfKey(i)
             /\ argv[i + 1] # <<>>
             /\ ~StartsWith(argv[i + 1], <<"-","-">>)) =>
                LET key == Slice(argv[i], 2)
                    token == argv[i + 1]
                IN  /\ key \in DOMAIN data
                    /\ data[key].t = "boolean" <=> token \in {<<"t","r","u","e">>, <<"f","a","l","s","e">>}
                    /\ token = <<"t","r","u","e">> => data[key] = Bool(TRUE)
                    /\ token = <<"f","a","l","s","e">> => data[key] = Bool(FALSE)
                    /\ token \notin {<<"t","r","u","e">>, <<"f","a","l","s","e">>} => data[key] = Str(token)

\* values that differ from the boolean strings only by case or by a blank
\* stay strings
C8_Witness ==
    /\ pc = "parsed"
    /\ argv = <<<<"c","r","u","d","-","m","o","d","u","l","e">>, <<"-","-","e","n","t","i","t","y","N","a","m","e">>, <<"T","r","u","e">>>>
    /\ data[<<"e","n","t","i","t","y","N","a","m","e">>] = Str(<<"T","r","u","e">>)

\* C9: in the merged context every key given on the command line holds the
\* command-line value, and every other key with a default holds the default.
C9_CommandLineWins ==
    (pc # "idle" /\ Registered) =>
        LET defaults == generators[argv[1]].defaults
        IN  /\ DOMAIN merged = DOMAIN defaults \cup DOMAIN data
            /\ \A k \in DOMAIN data : merged[k] = data[k]
            /\ \A k \in DOMAIN defaults \ DOMAIN data : merged[k] = defaults[k]

\* --includeJson false on crud-module, whose default is true
C9_Witness ==
    /\ pc = "exited"
    /\ Registered
    /\ argv[1] = <<"c","r","u","d","-","m","o","d","u","l","e">>
    /\ <<"i","n","c","l","u","d","e","J","s","o","n">> \in DOMAIN data
    /\ data[<<"i","n","c","l","u","d","e","J","s","o","n">>] = Bool(FALSE)
    /\ merged[<<"i","n","c","l","u","d","e","J","s","o","n">>] = Bool(FALSE)
    /\ merged[<<"f","i","e","l","d","s">>] = Str(<<"n","a","m","e",":","T","e","x","t">>)
    /\ exitCode = <<0>>

\* C10: parseOperations returns [] without throwing for a string that is
\* not valid JSON, parseFields returns [] without throwing for a string that
\* starts with [ and is not valid JSON, and parseFields throws on no string.
C10_MalformedJsonTolerated ==
    /\ (opsResult.called /\ ~JsonParse(input.s).ok) =>
          /\ ~opsResult.threw
          /\ opsResult.value = Arr(<<>>)
    /\ (fieldsResult.called /\ StartsWith(input.s, <<"[">>) /\ ~JsonParse(input.s).ok) =>
          /\ ~fieldsResult.threw
          /\ fieldsResult.value = Arr(<<>>)
    /\ fieldsResult.called => ~fieldsResult.threw

\* parseOperations called on a non-empty string that is not JSON
C10_Witness ==
    /\ opsResult.called
    /\ input.s = <<"[","1",",">>
    /\ ~JsonParse(input.s).ok
    /\ opsResult = Returned(Arr(<<>>), TRUE)

-----------------------------------------------------------------------------
(* The shorthand of parseFields, read off the input positions *)

ColonCount(seg) == Cardinality({i \in 1..Len(seg) : seg[i] = ":"})

\* the index of the first colon of the segment, Len(seg) + 1 without one
FirstColon(seg) ==
    IF ColonCount(seg) = 0 THEN Len(seg) + 1
    ELSE CHOOSE i \in 1..Len(seg) :
            /\ seg[i] = ":"
            /\ \A j \in 1..(i - 1) : seg[j] # ":"

NameText(seg) == Trim(SubSeq(seg, 1, FirstColon(seg) - 1))

AfterFirstColon(seg) == Trim(SubSeq(seg, FirstColon(seg) + 1, Len(seg)))

TypeText(seg) == IF AfterFirstColon(seg) = <<>> THEN <<"T","e","x","t">> ELSE AfterFirstColon(seg)

\* the segments of the input that have a name, in input order
NamedSegments(s) == SelectSeq(Split(s, ","), LAMBDA seg : NameText(seg) # <<>>)

\* parseFields was called on an input that takes the shorthand path
ShorthandCalled ==
    /\ fieldsResult.called
    /\ input.t = "string"
    /\ ~StartsWith(input.s, <<"[">>)

\* C11: on a shorthand input parseFields returns one record per segment with
\* a non-empty trimmed name, in input order; the name is the trimmed text
\* before the colon, the type the trimmed text after the colon of a segment
\* with one colon, and Text without a colon or with nothing after it.
C11_ShorthandRecords ==
    ShorthandCalled =>
        /\ ~fieldsResult.threw
        /\ fieldsResult.value.t = "array"
        /\ Len(fieldsResult.value.items) = Len(NamedSegments(input.s))
        /\ \A n \in 1..Len(fieldsResult.value.items) :
              /\ fieldsResult.value.items[n].keys = <<<<"n","a","m","e">>, <<"t","y","p","e">>>>
              /\ Member(fieldsResult.value.items[n], <<"n","a","m","e">>)
                    = Str(NameText(NamedSegments(input.s)[n]))
              /\ ColonCount(NamedSegments(input.s)[n]) <= 1 =>
                    Member(fieldsResult.value.items[n], <<"t","y","p","e">>)
                      = Str(TypeText(NamedSegments(input.s)[n]))

\* a segment with a name and a type, followed by an empty segment that is
\* dropped
C11_Witness ==
    /\ ShorthandCalled
    /\ input.s = <<"a",":","1",",">>
    /\ fieldsResult.value.items = <<Obj(<<<<"n","a","m","e">>, <<"t","y","p","e">>>>, <<Str(<<"a">>), Str(<<"1">>)>>)>>

\* C12: a shorthand segment is split on its first colon only, so the type of
\* a segment with more than one colon is the whole trimmed text after the
\* first colon.
C12_FirstColonOnly ==
    ShorthandCalled =>
        \A n \in 1..Len(fieldsResult.value.items) :
            (n <= Len(NamedSegments(input.s))
             /\ ColonCount(NamedSegments(input.s)[n]) >= 2) =>
                Member(fieldsResult.value.items[n], <<"t","y","p","e">>)
                  = Str(TypeText(NamedSegments(input.s)[n]))

\* a FieldSpec: the name is not empty after trimming, the type is a
\* non-empty string
IsFieldSpec(v) ==
    /\ v.t = "object"
    /\ Member(v, <<"n","a","m","e">>).t = "string"
    /\ Trim(Member(v, <<"n","a","m","e">>).s) # <<>>
    /\ Member(v, <<"t","y","p","e">>).t = "string"
    /\ Member(v, <<"t","y","p","e">>).s # <<>>

\* C13: every element of every list parseFields returns, on the JSON path
\* and on the shorthand path, is a FieldSpec.
C13_ElementsAreFieldSpecs ==
    (fieldsResult.called /\ ~fieldsResult.threw) =>
        \A n \in 1..Len(fieldsResult.value.items) :
            IsFieldSpec(fieldsResult.value.items[n])

\* C14: for every string parseOperations returns a list: the parsed array
\* when the input is a JSON array, the empty list otherwise.
C14_OperationsArrayOnly ==
    (opsResult.called /\ input.t = "string") =>
        /\ ~opsResult.threw
        /\ opsResult.value.t = "array"
        /\ opsResult.value =
              IF JsonParse(input.s).ok /\ JsonParse(input.s).v.t = "array"
              THEN JsonParse(input.s).v
              ELSE Arr(<<>>)

\* the JSON text of a value, without blanks
RECURSIVE JsonTextOf(_)
JsonTextOf(v) ==
    CASE v.t = "array" ->
           <<"[">> \o Flatten([n \in 1..Len(v.items) |->
                    (IF n > 1 THEN <<",">> ELSE <<>>) \o JsonTextOf(v.items[n])]) \o <<"]">>
      [] v.t = "object" ->
           <<"{">> \o Flatten([n \in 1..Len(v.items) |->
                    (IF n > 1 THEN <<",">> ELSE <<>>) \o <<"\"">> \o v.keys[n] \o <<"\"",":">>
                    \o JsonTextOf(v.items[n])]) \o <<"}">>
      [] v.t = "string" -> <<"\"">> \o v.s \o <<"\"">>
      [] OTHER -> ToStringPrimitive(v)

WithoutBlanks(s) == SelectSeq(s, LAMBDA c : c # " ")

\* C15: for an input that starts with [ and is a valid JSON array,
\* parseFields returns exactly the array the text denotes: written back as
\* JSON, the result is the input without its blanks.
C15_JsonArrayAsIs ==
    (fieldsResult.called /\ StartsWith(input.s, <<"[">>) /\ JsonParse(input.s).ok) =>
        /\ ~fieldsResult.threw
        /\ ~fieldsResult.logged
        /\ fieldsResult.value.t = "array"
        /\ JsonTextOf(fieldsResult.value) = WithoutBlanks(input.s)

\* an array of a number and an object, neither of them a FieldSpec with a type
C15_Witness ==
    /\ fieldsResult.called
    /\ input.s = <<"[","1",",","{","\"","n","a","m","e","\"",":","\"","a","\"","}","]">>
    /\ fieldsResult.value.items = <<Num(<<"1">>), Obj(<<<<"n","a","m","e">>>>, <<Str(<<"a">>)>>)>>

\* C24: parseFields looks at the trimmed input: an input whose first
\* non-blank character is [ is parsed as JSON, never by the shorthand rules.
C24_JsonPathAfterTrim ==
    (fieldsResult.called /\ input.t = "string" /\ StartsWith(TrimStart(input.s), <<"[">>)) =>
        /\ ~fieldsResult.threw
        /\ fieldsResult.value =
              IF JsonParse(input.s).ok THEN JsonParse(input.s).v ELSE Arr(<<>>)

-----------------------------------------------------------------------------
(* The case helpers, read off the input positions *)

HelperCalled(name) ==
    /\ helperName = name
    /\ helperInput.t = "string"

\* the character of the input at i as pascalCase and camelCase leave it:
\* dropped when it is a delimiter, uppercased when it follows one
SegmentedAt(s, i) ==
    IF s[i] \in {"-", "_", " ", "\t", "\n", "\r"} THEN <<>>
    ELSE IF i > 1 /\ s[i - 1] \in {"-", "_", " ", "\t", "\n", "\r"}
    THEN <<ToUpperChar(s[i])>>
    ELSE <<s[i]>>

Segmented(s) == Flatten([i \in 1..Len(s) |-> SegmentedAt(s, i)])

\* C16: pascalCase and camelCase drop every run of -, _ and whitespace and
\* uppercase the character after each run; the results differ only in the
\* first character, uppercased by pascalCase and lowercased by camelCase,
\* and hold no -, _ or whitespace.
C16_PascalAndCamel ==
    /\ HelperCalled("pascalCase") =>
          /\ helperResult.ok
          /\ Len(helperResult.s) = Len(Segmented(helperInput.s))
          /\ \A i \in 1..Len(helperResult.s) :
                /\ helperResult.s[i] \notin {"-", "_", " ", "\t", "\n", "\r"}
                /\ helperResult.s[i] =
                      IF i = 1 THEN ToUpperChar(Segmented(helperInput.s)[1])
                      ELSE Segmented(helperInput.s)[i]
    /\ HelperCalled("camelCase") =>
          /\ helperResult.ok
          /\ Len(helperResult.s) = Len(Segmented(helperInput.s))
          /\ \A i \in 1..Len(helperResult.s) :
                /\ helperResult.s[i] \notin {"-", "_", " ", "\t", "\n", "\r"}
                /\ helperResult.s[i] =
                      IF i = 1 THEN ToLowerChar(Segmented(helperInput.s)[1])
                      ELSE Segmented(helperInput.s)[i]

\* camelCase on a text with a leading run and an inner run
C16_Witness ==
    /\ HelperCalled("camelCase")
    /\ helperInput.s = <<"_","B"," ","a">>
    /\ helperResult = HelperOk(<<"b","A">>)

\* the character of the input at i as kebabCase leaves it
KebabAt(s, i) ==
    IF s[i] \in {"_", " ", "\t", "\n", "\r"}
    THEN IF i > 1 /\ s[i - 1] \in {"_", " ", "\t", "\n", "\r"} THEN <<>> ELSE <<"-">>
    ELSE IF IsLower(s[i]) /\ i < Len(s) /\ IsUpper(s[i + 1])
    THEN <<s[i], "-">>
    ELSE <<ToLowerChar(s[i])>>

\* C17: kebabCase puts a - between a lowercase letter and the uppercase
\* letter that follows it, replaces every run of _ or whitespace by one -,
\* and lowercases; the result holds no uppercase letter, _ or whitespace.
C17_KebabCase ==
    HelperCalled("kebabCase") =>
        /\ helperResult.ok
        /\ helperResult.s = Flatten([i \in 1..Len(helperInput.s) |-> KebabAt(helperInput.s, i)])
        /\ \A i \in 1..Len(helperResult.s) :
              /\ ~IsUpper(helperResult.s[i])
              /\ helperResult.s[i] \notin {"_", " ", "\t", "\n", "\r"}

\* a lowercase-to-uppercase transition and a run of two separators
C17_Witness ==
    /\ HelperCalled("kebabCase")
    /\ helperInput.s = <<"a","B","_"," ">>
    /\ helperResult = HelperOk(<<"a","-","b","-">>)

\* the last n characters of s
Ending(s, n) == IF Len(s) >= n THEN SubSeq(s, Len(s) - n + 1, Len(s)) ELSE <<>>

\* C18: pluralize replaces a final y by ies; otherwise it appends es to a
\* word ending in s, x, ch or sh; otherwise it appends s.
C18_Pluralize ==
    HelperCalled("pluralize") =>
        /\ helperResult.ok
        /\ helperResult.s =
              IF Ending(helperInput.s, 1) = <<"y">>
              THEN SubSeq(helperInput.s, 1, Len(helperInput.s) - 1) \o <<"i","e","s">>
              ELSE IF Ending(helperInput.s, 1) \in {<<"s">>, <<"x">>}
                      \/ Ending(helperInput.s, 2) \in {<<"c","h">>, <<"s","h">>}
              THEN helperInput.s \o <<"e","s">>
              ELSE helperInput.s \o <<"s">>

\* a word ending in sh
C18_Witness ==
    /\ HelperCalled("pluralize")
    /\ helperInput.s = <<"c","a","s","h">>
    /\ helperResult = HelperOk(<<"c","a","s","h","e","s">>)

-----------------------------------------------------------------------------
(* The field type helpers *)

PrimitiveTypes == {<<"T","e","x","t">>, <<"N","a","t">>, <<"I","n","t">>, <<"F","l","o","a","t">>, <<"B","o","o","l","e","a","n">>}

\* a table function was called on a type name
TableCalled(name) ==
    /\ typeFn = name
    /\ Member(fieldInput, <<"t","y","p","e">>).t = "string"

\* C19: the encode and the decode table know the same five names: Text, Nat,
\* Int, Float and Boolean give add<Name> and Decoder.<name>; any other name
\* gives addJson on the encode side and <Type>.decoder on the decode side.
C19_TablesMirror ==
    /\ TableCalled("getAddFn") =>
          typeResult.s =
              IF Member(fieldInput, <<"t","y","p","e">>).s \in PrimitiveTypes
              THEN <<"a","d","d">> \o Member(fieldInput, <<"t","y","p","e">>).s
              ELSE <<"a","d","d","J","s","o","n">>
    /\ TableCalled("getDecoderForType") =>
          typeResult.s =
              IF Member(fieldInput, <<"t","y","p","e">>).s \in PrimitiveTypes
              THEN <<"D","e","c","o","d","e","r",".">> \o ToLowerCase(Member(fieldInput, <<"t","y","p","e">>).s)
              ELSE Member(fieldInput, <<"t","y","p","e">>).s \o <<".","d","e","c","o","d","e","r">>

\* the encode table on Boolean
C19_Witness ==
    /\ TableCalled("getAddFn")
    /\ Member(fieldInput, <<"t","y","p","e">>) = Str(<<"B","o","o","l","e","a","n">>)
    /\ typeResult = HelperOk(<<"a","d","d","B","o","o","l","e","a","n">>)

\* the type left when every Optional prefix and every pair of brackets is
\* taken off
RECURSIVE BaseType(_)
BaseType(t) ==
    IF StartsWith(t, <<"O","p","t","i","o","n","a","l"," ">>) THEN BaseType(SubSeq(t, Len(<<"O","p","t","i","o","n","a","l"," ">>) + 1, Len(t)))
    ELSE IF StartsWith(t, <<"[">>) /\ EndsWith(t, <<"]">>) THEN BaseType(SubSeq(t, 2, Len(t) - 1))
    ELSE t

Contains(s, part) ==
    \E i \in 0..(Len(s) - Len(part)) : SubSeq(s, i + 1, i + Len(part)) = part

\* C20: encoderField and decoderField unwrap Optional and [ ] recursively
\* before the table lookup, so the snippet of a wrapped type is built from
\* the table entry of its base type.
C20_RecursiveUnwrapping ==
    /\ (TableCalled("decoderField") /\ typeResult.ok) =>
          Contains(typeResult.s,
                   getDecoderForType(Str(BaseType(Member(fieldInput, <<"t","y","p","e">>).s))))
    /\ (TableCalled("encoderField") /\ typeResult.ok) =>
          \/ Contains(typeResult.s,
                      getAddFn(Str(BaseType(Member(fieldInput, <<"t","y","p","e">>).s))))
          \/ Contains(typeResult.s,
                      getEncoderForType(Str(BaseType(Member(fieldInput, <<"t","y","p","e">>).s))))

-----------------------------------------------------------------------------
(* The output plan and the output loop of main *)

\* the invocation ran crud-module up to its output plan
CrudPlanned ==
    /\ pc \in {"writing", "exited"}
    /\ generator = Str(<<"c","r","u","d","-","m","o","d","u","l","e">>)
    /\ outputs # <<>>

\* C21: the crud-module plan starts with the crud-module instruction in
\* create mode; it holds the json-mappers instruction exactly when
\* includeJson is truthy in the final context (true by default, false after
\* --includeJson false), after the first one, on the same path, in append mode.
C21_CrudPlanFromContext ==
    /\ CrudPlanned =>
          /\ outputs[1].template = <<"c","r","u","d","-","m","o","d","u","l","e",".","u",".","h","b","s">>
          /\ ~outputs[1].append
          /\ Len(outputs) = (IF Truthy(GetProp(finalData, <<"i","n","c","l","u","d","e","J","s","o","n">>)) THEN 2 ELSE 1)
          /\ <<"i","n","c","l","u","d","e","J","s","o","n">> \notin DOMAIN data => Len(outputs) = 2
          /\ GetProp(data, <<"i","n","c","l","u","d","e","J","s","o","n">>) = Bool(FALSE) => Len(outputs) = 1
          /\ Len(outputs) = 2 =>
                /\ outputs[2].template = <<"j","s","o","n","-","m","a","p","p","e","r","s",".","u",".","h","b","s">>
                /\ outputs[2].path = outputs[1].path
                /\ outputs[2].append
    /\ (pc = "writing" /\ generator = Str(<<"c","r","u","d","-","m","o","d","u","l","e">>)) => outputs # <<>>

\* crud-module --entityName aB --includeJson false
C21_Witness ==
    /\ CrudPlanned
    /\ GetProp(data, <<"i","n","c","l","u","d","e","J","s","o","n">>) = Bool(FALSE)
    /\ outputs = <<Output(<<"a","-","b","-","c","r","u","d",".","u">>, <<"c","r","u","d","-","m","o","d","u","l","e",".","u",".","h","b","s">>, FALSE)>>

\* the file system after the first n instructions of the plan ran, in plan
\* order, on files
RECURSIVE PlanResult(_, _, _, _)
PlanResult(files, outs, ctx, n) ==
    IF n = 0 THEN files
    ELSE WriteRendered(PlanResult(files, outs, ctx, n - 1), outs[n],
                       Render(outs[n].template, ctx)).fs

\* the invocation reported a failed template read or file write
IoFailed == \E n \in 1..Len(stderr) : stderr[n].kind = "Error"

\* C22: the instructions run in plan order; when the template read or the
\* file write of instruction k fails, no later instruction runs, no success
\* message is printed and the exit status is not zero.
C22_OrderAndAbort ==
    pc \in {"writing", "exited"} =>
        /\ idx \in 1..(Len(outputs) + 1)
        /\ fs = PlanResult(fsBefore, outputs, finalData, idx - 1)
        /\ Len(WrittenLines) = idx - 1
        /\ \A n \in 1..Len(WrittenLines) : WrittenLines[n].args = <<outputs[n].path>>
        /\ (IoFailed /\ outputs # <<>>) =>
              /\ pc = "exited"
              /\ exitCode = <<1>>
              /\ idx <= Len(outputs)
              /\ \A n \in 1..Len(stdout) : stdout[n].kind # "Done"

\* the second of two instructions failed after the first was written
C22_Witness ==
    /\ pc = "exited"
    /\ IoFailed
    /\ Len(outputs) = 2
    /\ idx = 2
    /\ fs # fsBefore

-----------------------------------------------------------------------------
(* Validation in main *)

\* the invocation ended with the unknown-generator or the missing-arguments error
ValidationFailed ==
    /\ pc = "exited"
    /\ stderr # <<>>
    /\ stderr[1].kind \in {"Unknown generator", "Missing required arguments"}

\* C25: when main fails with the unknown-generator or the missing-arguments
\* error, preProcess and the output plan were not evaluated, nothing was
\* printed as written and the file system is as it was.
C25_ValidationBeforeEffects ==
    ValidationFailed =>
        /\ exitCode = <<1>>
        /\ finalData = merged
        /\ outputs = <<>>
        /\ stdout = <<>>
        /\ fs = fsBefore

\* a crud-module invocation without --entityName, after an invocation that
\* wrote files
C25_Witness ==
    /\ ValidationFailed
    /\ generator = Str(<<"c","r","u","d","-","m","o","d","u","l","e">>)
    /\ missing = <<<<"e","n","t","i","t","y","N","a","m","e">>>>
    /\ TypeOf(GetProp(merged, <<"f","i","e","l","d","s">>)) = "string"
    /\ fs # EmptyFs

ValidationPassed ==
    /\ pc \in {"writing", "exited"}
    /\ Registered
    /\ missing = <<>>

\* C28: when validation passes, every required argument holds a non-empty
\* string; a required argument given as a bare flag is rejected as missing.
C28_RequiredAreStrings ==
    ValidationPassed =>
        \A n \in 1..Len(generators[argv[1]].required) :
            /\ GetProp(merged, generators[argv[1]].required[n]).t = "string"
            /\ GetProp(merged, generators[argv[1]].required[n]).s # <<>>

\* the context is handed to the renderer
Rendering ==
    /\ ValidationPassed
    /\ outputs # <<>>

\* C29: after preProcess the context holds a list under fields (crud-module,
\* json-mappers) and under operations (ability-handler, api-client,
\* service-tests), also when the flag was bare or had the value false.
C29_SpecValuedKeysAreLists ==
    /\ (Rendering /\ argv[1] \in {<<"c","r","u","d","-","m","o","d","u","l","e">>, <<"j","s","o","n","-","m","a","p","p","e","r","s">>}) =>
          /\ GetProp(finalData, <<"f","i","e","l","d","s">>).t = "array"
          /\ \A n \in 1..Len(GetProp(finalData, <<"f","i","e","l","d","s">>).items) :
                GetProp(finalData, <<"f","i","e","l","d","s">>).items[n].t = "object"
    /\ (Rendering /\ argv[1] \in {<<"a","b","i","l","i","t","y","-","h","a","n","d","l","e","r">>, <<"a","p","i","-","c","l","i","e","n","t">>, <<"s","e","r","v","i","c","e","-","t","e","s","t","s">>}) =>
          GetProp(finalData, <<"o","p","e","r","a","t","i","o","n","s">>).t = "array"

-----------------------------------------------------------------------------
(* The wrapper against the plopfile *)

\* both the plopfile generator and the wrapper computed their instructions
BothPlanned ==
    /\ plopActions # <<>>
    /\ pc \in {"writing", "exited"}
    /\ outputs # <<>>

\* C23: all output instructions of one generator invocation have the same
\* target path, in the plopfile and in the wrapper alike.
C23_SingleFile ==
    /\ \A n \in 1..Len(plopActions) : plopActions[n].path = plopActions[1].path
    /\ pc \in {"writing", "exited"} =>
          \A n \in 1..Len(outputs) : outputs[n].path = outputs[1].path

\* C30: for every generator defined in both and every argument bag, the
\* wrapper and the plopfile produce the same target path and the same write
\* mode for each output; a non-empty appendTo makes both append to that file.
C30_SamePathAndMode ==
    BothPlanned =>
        /\ Len(outputs) = Len(plopActions)
        /\ \A n \in 1..Len(outputs) :
              n <= Len(plopActions) =>
                 /\ outputs[n].path = plopActions[n].path
                 /\ outputs[n].append = (plopActions[n].type = "append")
        /\ Truthy(GetProp(data, <<"a","p","p","e","n","d","T","o">>)) =>
              \A n \in 1..Len(outputs) :
                 /\ outputs[n].path = GetProp(data, <<"a","p","p","e","n","d","T","o">>).s
                 /\ outputs[n].append

-----------------------------------------------------------------------------
(* Invocations that share a target file *)

AllDone == \A p \in Procs : procs[p].pc = "done"

\* the file system after process p's invocation ran alone on files
RunAlone(files, p) ==
    PlanResult(files, procs[p].outputs, procs[p].ctx, Len(procs[p].outputs))

\* the file system after p's invocation and then q's, one at a time
Sequential(p, q) == RunAlone(RunAlone(EmptyFs, p), q)

\* C26: invocations that run one at a time leave the file system of the
\* sequential run in launch order; only invocations that run side by side
\* can leave a file that neither sequential order produces.
C26_OneAtATimeIsSequential ==
    /\ (AllDone /\ ~overlapped) => fs = Sequential(started[1], started[2])
    /\ (~overlapped /\ Len(started) = 1 /\ procs[started[1]].pc = "done") =>
          fs = RunAlone(EmptyFs, started[1])
    /\ (AllDone /\ fs # Sequential(1, 2) /\ fs # Sequential(2, 1)) => overlapped

\* both invocations target the same path, ran side by side, and the file
\* differs from the outcome of both sequential orders
C26_Witness ==
    /\ AllDone
    /\ overlapped
    /\ procs[1].outputs[1].path = procs[2].outputs[1].path
    /\ fs[procs[1].outputs[1].path] # Sequential(1, 2)[procs[1].outputs[1].path]
    /\ fs[procs[1].outputs[1].path] # Sequential(2, 1)[procs[1].outputs[1].path]

====
